---- MODULE Spec2Model ----
(***************************************************************************)
(* State-machine model of the AlicePi voice pipeline.                      *)
(*                                                                         *)
(*   Part I   Speech-Rec service (speech_rec/main.py, transcriber.py,      *)
(*            audio_stream.py): status-driven segmentation, the utterance  *)
(*            buffer, cancellable transcription workers, text emission.    *)
(*   Part II  Orchestrator (orchestrator/src/main.py, session.py,          *)
(*            sr_client.py): the session FSM, the session history and its  *)
(*            log, the button handler and the SR connections.              *)
(*                                                                         *)
(* Every thread of a service is a process of the model; a handler is cut   *)
(* into steps only where another thread of the same service can observe    *)
(* or change the state it works on.                                        *)
(***************************************************************************)
EXTENDS Integers, Sequences, FiniteSets, TLC

(***************************************************************************)
(* Bounds of the model.                                                    *)
(***************************************************************************)
MaxWorkers == 3
MaxPackets == 3
MaxCommands == 5
MaxSegments == 1
MaxUtteranceAudio == 2

(***************************************************************************)
(* Part I: Speech-Rec                                                      *)
(***************************************************************************)
VARIABLES
  is_listening,           \* SpeechRecService.is_listening
  last_vad_status,        \* SpeechRecService._last_vad_status
  pending_transcription,  \* SpeechRecService._pending_transcription
  audio_buffer,           \* AudioTranscriber.audio_buffer: ids of the buffered audio payloads
  packet_queue,           \* AudioStreamServer.packet_queue
  transcription_thread,   \* SpeechRecService.transcription_thread: 0 is None, else a worker id
  transcription_cancel,   \* SpeechRecService.transcription_cancel: id of the current Event object
  events,                 \* the flag of every Event object ever created
  workers,                \* the worker threads: position and locals of _worker / transcribe
  sr_text_socket,         \* SpeechRecService.text_socket is connected
  text_out,               \* the lines sent on the text port
  main_pc,                \* position of _main_loop: "ingest" (inner while) or "transcribe"
  cmd_pc,                 \* position of the control client thread: "idle" or "joining"
  cancelled,              \* workers that were alive when RESET set the cancel flag
  n_packets,              \* packets received on the audio port so far
  n_cmds,                 \* commands received on the control port so far
  since_reset,            \* a RESET command was received and no START after it
  wire,                   \* the packets still to be sent by the scripted audio client
  early_stop              \* STOP was processed while received packets were still queued

srvars == <<is_listening, last_vad_status, pending_transcription, audio_buffer,
            packet_queue, transcription_thread, transcription_cancel, events,
            workers, sr_text_socket, text_out, main_pc, cmd_pc, cancelled,
            n_packets, n_cmds, since_reset, wire, early_stop>>

(* the Orchestrator's state, Part II *)
VARIABLES
  state,              \* Orchestrator.state
  history,            \* SessionManager.history
  last_tts_end_time,  \* SessionManager.last_tts_end_time
  now,                \* time.time()
  session_log,        \* the records appended to config.SESSION_LOG_PATH
  logging_enabled,    \* config.ENABLE_SESSION_LOGGING
  bus,                \* the multipart messages sent on pub_socket
  control_socket,     \* SRClient.control_socket is connected
  sr_commands,        \* the commands sent on the control connection
  text_socket,        \* SRClient.text_socket is connected
  running,            \* Orchestrator.running
  rd_pc,              \* position of the SR-text reader thread in _handle_sr_text / _process_text
  rd_text,            \* the final text the reader is handling (its ordinal), 0 if none
  rd_line,            \* the line the reader is handling, as _handle_sr_text decodes it
  rd_chunks,          \* audio chunks the engine has handed to on_audio_chunk in this turn
  rd_response,        \* response_text in _process_text: what engine.process returned
  engine_arg,         \* the history the engine was called with in this turn
  bt_pc,              \* position of the button thread in _handle_button_event
  cb_pc,              \* position of the control keepalive thread in its connect callback
  n_texts,            \* lines received on the text connection so far
  n_resets,           \* RESET button events received so far
  n_ticks,            \* clock advances so far
  n_conns,            \* control connections established so far
  turn_base,          \* the history when the text being handled arrived
  turn_log,           \* the session log when the text being handled arrived
  turn_late,          \* that text arrived more than SESSION_TIMEOUT after last_tts_end_time
  turn_reset          \* a RESET cleared the history while that text was being handled

ovars == <<state, history, last_tts_end_time, now, session_log, logging_enabled, bus,
           control_socket, sr_commands, text_socket, running, rd_pc, rd_text, rd_line,
           rd_chunks, rd_response, engine_arg, bt_pc, cb_pc, n_texts, n_resets, n_ticks, n_conns,
           turn_base, turn_log, turn_late, turn_reset>>

(* the Voice-Input main loop, Part III *)
VARIABLES
  last_speech_time,   \* main(): last_speech_time in ms, NoTime for None
  last_status,        \* main(): last_status
  sequence,           \* main(): sequence
  current_time,       \* time.time() at the latest chunk, in ms
  emitted,            \* the packets handed to streamer.send_packet so far, in order
  n_chunks,           \* chunks read so far
  chunk_is_speech,    \* vad.process(chunk) for the latest chunk
  speech_at,          \* time of the latest chunk classified as speech, NoTime if none
  past_hangover       \* non-speech chunks read at or after speech_at + hangover since then

vivars == <<last_speech_time, last_status, sequence, current_time, emitted, n_chunks,
            chunk_is_speech, speech_at, past_hangover>>

(* the AudioStreamer of Voice-Input, Part IV *)
VARIABLES
  st_socket,          \* AudioStreamer.socket: 0 is None, else the id of the connection
  st_lock,            \* AudioStreamer.lock: "free", or the thread that holds it
  st_drop_packets,    \* AudioStreamer._drop_packets
  conn_pc,            \* position of the _connect_loop thread
  conn_sock,          \* _connect_loop: the local sock, 0 if none
  send_pc,            \* position of the calling thread in send_packet
  send_packet_arg,    \* send_packet: the packet being handled (its ordinal), 0 if none
  delivered,          \* the packets Speech-Rec received, with the connection they came on
  unconnected,        \* ordinals of the packets handed over while socket was None
  n_calls,            \* send_packet calls so far
  n_conns_made,       \* connections established so far
  n_broken,           \* sends that failed so far
  n_refused           \* connect attempts that failed so far

(* the VadPacketFramer of Speech-Rec and the byte stream it is fed, Part V *)
VARIABLES
  fr_buffer,    \* VadPacketFramer._buffer
  fr_wire,      \* the bytes of the stream not yet passed to decode
  fr_sent,      \* the packets the stream was encoded from
  fr_decoded,   \* the packets decode returned so far, in order
  fr_calls      \* decode calls so far

frvars == <<fr_buffer, fr_wire, fr_sent, fr_decoded, fr_calls>>

(* the NetworkReceiver of Voice-Input (network), Part VI *)
VARIABLES
  audio_queue,   \* NetworkReceiver.audio_queue: the chunks, each known by its ordinal
  nr_pc,         \* position of _handle_client in its put / evict / put sequence
  nr_chunk,      \* _handle_client: the local chunk, 0 if none
  n_chunks_in,   \* chunks cut from the receive buffer so far
  n_read         \* read_chunk calls that returned a chunk

nrvars == <<audio_queue, nr_pc, nr_chunk, n_chunks_in, n_read>>

(* the three server ports of Speech-Rec and their clients, Part VII *)
VARIABLES
  pt_connected,  \* per port: the clients whose connection is open on their side
  pt_taken,      \* per port: the clients accept() has returned so far
  pt_accepted,   \* per port: the clients the server serves (a thread reads
                 \*   from them, or text_socket is their connection)
  pt_served,     \* per port: the clients whose bytes were consumed or that
                 \*   were sent a line, in order
  pt_n           \* per port: connections made so far; clients are numbered in
                 \*   the order they connect

ptvars == <<pt_connected, pt_taken, pt_accepted, pt_served, pt_n>>

(* the Voice-Output receive loop, Part VIII *)
VARIABLES
  vo_running,   \* the process is in its `while True` loop
  vo_written,   \* the audio messages written to the output stream (ordinals)
  vo_logged,    \* the messages for which an error or a warning was logged
  vo_n          \* messages received so far

vovars == <<vo_running, vo_written, vo_logged, vo_n>>

(* the AudioTranscriber buffer and the threads that use it, Part IX *)
VARIABLES
  tb_buffer,     \* AudioTranscriber.audio_buffer: the samples, each known by its ordinal
  tb_lock,       \* AudioTranscriber._buffer_lock: "free", or the operation that holds it
  ap_pc,         \* position of the thread in process_raw_bytes
  dr_pc,         \* position of the thread in drain_audio
  rs_pc,         \* position of the thread in reset
  dr_audio,      \* drain_audio: the local audio
  tb_snapshots,  \* the arrays drain_audio returned, in order
  tb_removed,    \* the samples a reset took out of the buffer
  tb_n,          \* samples appended so far
  tb_ops         \* drain_audio and reset calls so far

tbvars == <<tb_buffer, tb_lock, ap_pc, dr_pc, rs_pc, dr_audio, tb_snapshots, tb_removed,
            tb_n, tb_ops>>

(* the audio connection of Speech-Rec (AudioStreamServer), Part X *)
VARIABLES
  as_client,       \* "none": accept() is waiting; "serving": _receive_loop reads the
                   \* client; "dropped": _receive_loop was left with the client connected
  as_wire,         \* the frames the client has sent that recv has not returned yet
  as_sent,         \* the frames the client sends on this connection, in order
  as_queue,        \* AudioStreamServer.packet_queue: positions in as_sent
  as_last_status   \* AudioStreamServer.last_status: position in as_sent, 0 if none

asvars == <<as_client, as_wire, as_sent, as_queue, as_last_status>>

(* the Orchestrator's AudioProcessor, Part XI *)
VARIABLES
  target_rate,      \* AudioProcessor.target_rate
  target_channels,  \* AudioProcessor.target_channels
  target_dtype,     \* AudioProcessor.target_dtype
  rate_state,       \* AudioProcessor.rate_state
  source_format,    \* the format the engine announces with its chunks in this turn
  chunks_left,      \* the chunks the engine still hands to on_audio_chunk in this turn
  chunk_in,         \* the latest chunk given to process_chunk, as samples
  chunk_out,        \* what process_chunk returned for it, as samples of target_dtype
  n_processed       \* process_chunk calls so far

pxvars == <<target_rate, target_channels, target_dtype, rate_state, source_format,
            chunks_left, chunk_in, chunk_out, n_processed>>

(* the text connection as the Orchestrator reads it, Part XII *)
VARIABLES
  tr_lines,      \* the lines Speech-Rec has written to the text connection, in order:
                 \* TRUE for a final non-empty text, FALSE for any other line
  tr_read,       \* how many of them _read_text_loop has passed to on_text_callback
  tr_in_flight,  \* the lines whose engine turn is running
  tr_handled,    \* the final texts whose turn has been started, in the order of the starts
  tr_done        \* the final texts whose turn has finished, in the order of the ends

trvars == <<tr_lines, tr_read, tr_in_flight, tr_handled, tr_done>>

stvars == <<st_socket, st_lock, st_drop_packets, conn_pc, conn_sock,
            send_pc, send_packet_arg, delivered, unconnected, n_calls, n_conns_made,
            n_broken, n_refused>>

(* what a step of one service leaves alone *)
besideSR == <<ovars, vivars, stvars, frvars, nrvars, ptvars, vovars, tbvars, asvars, pxvars, trvars>>
besideOrch == <<srvars, vivars, stvars, frvars, nrvars, ptvars, vovars, tbvars, asvars, pxvars, trvars>>
besideVoice == <<srvars, ovars, stvars, frvars, nrvars, ptvars, vovars, tbvars, asvars, pxvars, trvars>>
besideStreamer == <<srvars, ovars, vivars, frvars, nrvars, ptvars, vovars, tbvars, asvars, pxvars, trvars>>
besideFramer == <<srvars, ovars, vivars, stvars, nrvars, ptvars, vovars, tbvars, asvars, pxvars, trvars>>
besideReceiver == <<srvars, ovars, vivars, stvars, frvars, ptvars, vovars, tbvars, asvars, pxvars, trvars>>
besidePorts == <<srvars, ovars, vivars, stvars, frvars, nrvars, vovars, tbvars, asvars, pxvars, trvars>>
besideOutput == <<srvars, ovars, vivars, stvars, frvars, nrvars, ptvars, tbvars, asvars, pxvars, trvars>>
besideBuffer == <<srvars, ovars, vivars, stvars, frvars, nrvars, ptvars, vovars, asvars, pxvars, trvars>>

besideAudioServer == <<srvars, ovars, vivars, stvars, frvars, nrvars, ptvars, vovars, tbvars, pxvars, trvars>>

besideProcessor == <<srvars, ovars, vivars, stvars, frvars, nrvars, ptvars, vovars, tbvars, asvars, trvars>>

besideTextReader == <<srvars, ovars, vivars, stvars, frvars, nrvars, ptvars, vovars, tbvars, asvars, pxvars>>

vars == <<srvars, ovars, vivars, stvars, frvars, nrvars, ptvars, vovars, tbvars, asvars, pxvars, trvars>>

Statuses == {"SILENCE", "SPEECH_DETECTED", "SPEECH_HANGOVER"}

WorkerIds == 1..MaxWorkers
EventIds == 0..MaxWorkers

StatusPacket(s) == [payload |-> "status", status |-> s, channels |-> 0, id |-> 0]
AudioPacket(ch, i) == [payload |-> "audio", status |-> "UNKNOWN", channels |-> ch, id |-> i]

IdleWorker == [pc |-> "unborn", audio |-> <<>>, ev |-> 0, k |-> 0]

\* threading.Thread.is_alive(): started and not yet returned
IsAlive(t) == t # 0 /\ workers[t].pc \notin {"unborn", "done"}

AliveWorkers == {t \in WorkerIds : IsAlive(t)}

NumSpawned == Cardinality({t \in WorkerIds : workers[t].pc # "unborn"})

SRInit ==
  /\ is_listening = FALSE
  /\ last_vad_status = "SILENCE"
  /\ pending_transcription = FALSE
  /\ audio_buffer = <<>>
  /\ packet_queue = <<>>
  /\ transcription_thread = 0
  /\ transcription_cancel = 0
  /\ events = [e \in EventIds |-> FALSE]
  /\ workers = [t \in WorkerIds |-> IdleWorker]
  /\ sr_text_socket = FALSE
  /\ text_out = <<>>
  /\ main_pc = "ingest"
  /\ cmd_pc = "idle"
  /\ cancelled = {}
  /\ n_packets = 0
  /\ n_cmds = 0
  /\ since_reset = FALSE
  /\ wire = <<>>
  /\ early_stop = FALSE

(* AudioStreamServer._receive_loop: a decoded packet with a payload is queued *)
ReceivePacket(p) ==
  /\ n_packets' = n_packets + 1
  /\ packet_queue' = Append(packet_queue, p)
  /\ UNCHANGED <<is_listening, last_vad_status, pending_transcription, audio_buffer,
                 transcription_thread, transcription_cancel, events, workers,
                 sr_text_socket, text_out, main_pc, cmd_pc, cancelled, n_cmds, since_reset, besideSR>>

(* the audio client sends a status packet *)
ReceiveStatus ==
  /\ n_packets < MaxPackets
  /\ \E s \in Statuses : ReceivePacket(StatusPacket(s))
  /\ UNCHANGED <<wire, early_stop>>

(* the audio client sends an audio packet, mono or stereo *)
ReceiveAudio ==
  /\ n_packets < MaxPackets
  /\ \E ch \in {1, 2} : ReceivePacket(AudioPacket(ch, n_packets + 1))
  /\ UNCHANGED <<wire, early_stop>>

(* AudioTranscriber.process_vad_packet: only mono audio is appended *)
ProcessVadPacket(buf, p) ==
  IF p.channels # 1 THEN buf ELSE Append(buf, p.id)

(* a variant of _handle_vad_status for which SPEECH_HANGOVER does not count
   as speaking *)
HandleVadStatusDetectedOnly(listening, last, pending, status) ==
  IF ~listening THEN pending
  ELSE IF last = "SPEECH_DETECTED" /\ status = "SILENCE"
       THEN TRUE
       ELSE pending

(* SpeechRecService._handle_vad_status: the new value of _pending_transcription *)
HandleVadStatusPending(listening, last, pending, status) ==
  IF ~listening THEN pending
  ELSE IF last \in {"SPEECH_DETECTED", "SPEECH_HANGOVER"} /\ status = "SILENCE"
       THEN TRUE
       ELSE pending

(* _main_loop, one iteration of the inner while with a packet in the queue *)
IngestPacket ==
  /\ main_pc = "ingest"
  /\ packet_queue # <<>>
  /\ LET p == Head(packet_queue) IN
       /\ packet_queue' = Tail(packet_queue)
       /\ IF p.payload = "audio"
          THEN /\ audio_buffer' = IF is_listening
                                  THEN ProcessVadPacket(audio_buffer, p)
                                  ELSE audio_buffer
               /\ UNCHANGED <<pending_transcription, last_vad_status>>
          ELSE /\ pending_transcription' =
                    HandleVadStatusPending(is_listening, last_vad_status,
                                           pending_transcription, p.status)
               /\ last_vad_status' = p.status
               /\ UNCHANGED audio_buffer
  /\ UNCHANGED <<is_listening, transcription_thread, transcription_cancel, events,
                 workers, sr_text_socket, text_out, main_pc, cmd_pc, cancelled,
                 n_packets, n_cmds, since_reset, wire, early_stop, besideSR>>

(* _main_loop: get_packet() returned None, the inner while is left *)
IngestDone ==
  /\ main_pc = "ingest"
  /\ packet_queue = <<>>
  /\ main_pc' = "transcribe"
  /\ UNCHANGED <<is_listening, last_vad_status, pending_transcription, audio_buffer,
                 packet_queue, transcription_thread, transcription_cancel, events,
                 workers, sr_text_socket, text_out, cmd_pc, cancelled, n_packets,
                 n_cmds, since_reset, wire, early_stop, besideSR>>

(* SpeechRecService._maybe_start_transcription *)
MaybeStartTranscription ==
  IF ~pending_transcription
  THEN UNCHANGED <<pending_transcription, audio_buffer, transcription_thread,
                   transcription_cancel, events, workers>>
  ELSE IF IsAlive(transcription_thread)
  THEN UNCHANGED <<pending_transcription, audio_buffer, transcription_thread,
                   transcription_cancel, events, workers>>
  ELSE IF audio_buffer = <<>>
  THEN /\ pending_transcription' = FALSE
       /\ UNCHANGED <<audio_buffer, transcription_thread, transcription_cancel,
                      events, workers>>
  ELSE /\ NumSpawned < MaxWorkers
       /\ pending_transcription' = FALSE
       /\ audio_buffer' = <<>>
       /\ IF events[transcription_cancel]
          THEN transcription_cancel' = transcription_cancel + 1
          ELSE UNCHANGED transcription_cancel
       /\ UNCHANGED events
       /\ LET t == NumSpawned + 1 IN
            /\ transcription_thread' = t
            /\ workers' = [workers EXCEPT ![t] =
                             [pc |-> "begin", audio |-> audio_buffer, ev |-> 0, k |-> 0]]

(* _main_loop, step 2 and the sleep: back to the inner while *)
MainTranscribe ==
  /\ main_pc = "transcribe"
  /\ main_pc' = "ingest"
  /\ MaybeStartTranscription
  /\ UNCHANGED <<is_listening, last_vad_status, packet_queue, sr_text_socket,
                 text_out, cmd_pc, cancelled, n_packets, n_cmds, since_reset, wire, early_stop, besideSR>>

WorkerFrame == <<is_listening, last_vad_status, pending_transcription, audio_buffer,
                 packet_queue, transcription_thread, transcription_cancel, events,
                 main_pc, cmd_pc, cancelled, n_packets, n_cmds, since_reset, wire, early_stop, besideSR>>

Finished(t) == [workers EXCEPT ![t] = [pc |-> "done", audio |-> <<>>, ev |-> 0, k |-> 0]]

(* _worker, line 204: self.transcription_cancel is read and handed to
   transcribe(), which checks it before calling the ASR model *)
WorkerBegin(t) ==
  /\ workers[t].pc = "begin"
  /\ IF events[transcription_cancel]
     THEN workers' = Finished(t)
     ELSE workers' = [workers EXCEPT ![t].pc = "segments",
                                     ![t].ev = transcription_cancel]
  /\ UNCHANGED <<sr_text_socket, text_out>>
  /\ UNCHANGED WorkerFrame

(* transcribe(): the ASR generator yields a segment; the cancel event that
   was passed in is checked before the segment is kept *)
WorkerSegment(t) ==
  /\ workers[t].pc = "segments"
  /\ workers[t].k < MaxSegments
  /\ IF events[workers[t].ev]
     THEN workers' = Finished(t)
     ELSE workers' = [workers EXCEPT ![t].k = @ + 1]
  /\ UNCHANGED <<sr_text_socket, text_out>>
  /\ UNCHANGED WorkerFrame

(* transcribe(): the generator is exhausted, the joined text is returned *)
WorkerExhausted(t) ==
  /\ workers[t].pc = "segments"
  /\ workers' = [workers EXCEPT ![t].pc = "returned"]
  /\ UNCHANGED <<sr_text_socket, text_out>>
  /\ UNCHANGED WorkerFrame

(* a variant in which the ASR call never comes back: the thread stays alive *)
WorkerRaiseNeverReturns(t) ==
  /\ workers[t].pc = "segments"
  /\ workers' = [workers EXCEPT ![t].pc = "raised"]
  /\ UNCHANGED <<sr_text_socket, text_out>>
  /\ UNCHANGED WorkerFrame

(* the ASR call raises: _worker logs the exception and returns *)
WorkerRaise(t) ==
  /\ workers[t].pc = "segments"
  /\ workers' = Finished(t)
  /\ UNCHANGED <<sr_text_socket, text_out>>
  /\ UNCHANGED WorkerFrame

(* _worker, line 205: `text and not self.transcription_cancel.is_set()`,
   read from the attribute as it is now *)
WorkerCheck(t) ==
  /\ workers[t].pc = "returned"
  /\ IF workers[t].k > 0 /\ ~events[transcription_cancel]
     THEN workers' = [workers EXCEPT ![t].pc = "emit"]
     ELSE workers' = Finished(t)
  /\ UNCHANGED <<sr_text_socket, text_out>>
  /\ UNCHANGED WorkerFrame

(* SpeechRecService._emit_text(text, is_final=True) *)
EmitText(t, sent) ==
  /\ workers[t].pc = "emit"
  /\ workers' = Finished(t)
  /\ IF ~sr_text_socket
     THEN UNCHANGED <<sr_text_socket, text_out>>
     ELSE IF sent
     THEN /\ text_out' = Append(text_out, [text |-> workers[t].audio,
                                           is_final |-> TRUE, by |-> t])
          /\ UNCHANGED sr_text_socket
     ELSE /\ sr_text_socket' = FALSE
          /\ UNCHANGED text_out
  /\ UNCHANGED WorkerFrame

WorkerEmit(t) == \E sent \in BOOLEAN : EmitText(t, sent)

(* _text_accept_loop: a text client is accepted *)
TextAccept ==
  /\ ~sr_text_socket
  /\ sr_text_socket' = TRUE
  /\ UNCHANGED <<is_listening, last_vad_status, pending_transcription, audio_buffer,
                 packet_queue, transcription_thread, transcription_cancel, events,
                 workers, text_out, main_pc, cmd_pc, cancelled, n_packets, n_cmds, since_reset,
                 wire, early_stop, besideSR>>

(* _process_command(CMD_START), lines 131-133: the three flags are set *)
CmdStart ==
  /\ cmd_pc = "idle"
  /\ n_cmds < MaxCommands
  /\ n_cmds' = n_cmds + 1
  /\ since_reset' = FALSE
  /\ is_listening' = TRUE
  /\ last_vad_status' = "SILENCE"
  /\ pending_transcription' = FALSE
  /\ cmd_pc' = "start_reset"
  /\ UNCHANGED <<audio_buffer, packet_queue, transcription_thread, transcription_cancel,
                 events, workers, sr_text_socket, text_out, main_pc, cancelled,
                 n_packets, wire, early_stop, besideSR>>

(* _process_command(CMD_START), line 134: self.transcriber.reset() *)
StartResetBuffer ==
  /\ cmd_pc = "start_reset"
  /\ cmd_pc' = "start_clear"
  /\ audio_buffer' = <<>>
  /\ UNCHANGED <<is_listening, last_vad_status, pending_transcription, packet_queue,
                 transcription_thread, transcription_cancel, events, workers,
                 sr_text_socket, text_out, main_pc, cancelled, n_packets, n_cmds, since_reset,
                 wire, early_stop, besideSR>>

(* _process_command(CMD_START), line 135: self.audio_server.clear_queue();
   the command has been processed *)
StartClearQueue ==
  /\ cmd_pc = "start_clear"
  /\ cmd_pc' = "idle"
  /\ packet_queue' = <<>>
  /\ UNCHANGED <<is_listening, last_vad_status, pending_transcription, audio_buffer,
                 transcription_thread, transcription_cancel, events, workers,
                 sr_text_socket, text_out, main_pc, cancelled, n_packets, n_cmds, since_reset,
                 wire, early_stop, besideSR>>

(* a variant of _process_command(CMD_STOP) that does not mark a
   transcription as pending *)
ProcessStopNotPending ==
  /\ cmd_pc = "idle"
  /\ n_cmds' = n_cmds + 1
  /\ is_listening' = FALSE
  /\ UNCHANGED <<since_reset, last_vad_status, pending_transcription, audio_buffer, packet_queue,
                 transcription_thread, transcription_cancel, events, workers,
                 sr_text_socket, text_out, main_pc, cmd_pc, cancelled, n_packets,
                 wire, besideSR>>

(* _process_command(CMD_STOP) *)
ProcessStop ==
  /\ cmd_pc = "idle"
  /\ n_cmds' = n_cmds + 1
  /\ is_listening' = FALSE
  /\ pending_transcription' = TRUE
  /\ UNCHANGED <<since_reset, last_vad_status, audio_buffer, packet_queue, transcription_thread,
                 transcription_cancel, events, workers, sr_text_socket, text_out,
                 main_pc, cmd_pc, cancelled, n_packets, wire, besideSR>>

(* a control client sends STOP *)
CmdStop ==
  /\ n_cmds < MaxCommands
  /\ ProcessStop
  /\ UNCHANGED early_stop

(* _process_command(CMD_RESET) up to the join of _cancel_transcription *)
CmdReset ==
  /\ cmd_pc = "idle"
  /\ n_cmds < MaxCommands
  /\ n_cmds' = n_cmds + 1
  /\ since_reset' = TRUE
  /\ is_listening' = FALSE
  /\ audio_buffer' = <<>>
  /\ packet_queue' = <<>>
  /\ IF IsAlive(transcription_thread)
     THEN /\ events' = [events EXCEPT ![transcription_cancel] = TRUE]
          /\ cancelled' = cancelled \cup {transcription_thread}
          /\ cmd_pc' = "joining"
          /\ UNCHANGED transcription_thread
     ELSE /\ transcription_thread' = 0
          /\ UNCHANGED <<events, cancelled, cmd_pc>>
  /\ UNCHANGED <<last_vad_status, pending_transcription, transcription_cancel,
                 workers, sr_text_socket, text_out, main_pc, n_packets, wire,
                 early_stop, besideSR>>

(* _cancel_transcription: join(timeout=0.5) returns, the worker having ended
   or not; the thread reference is dropped either way *)
CancelJoinReturn ==
  /\ cmd_pc = "joining"
  /\ cmd_pc' = "idle"
  /\ transcription_thread' = 0
  /\ UNCHANGED <<is_listening, last_vad_status, pending_transcription, audio_buffer,
                 packet_queue, transcription_cancel, events, workers, sr_text_socket,
                 text_out, main_pc, cancelled, n_packets, n_cmds, since_reset, wire, early_stop, besideSR>>

SRNext ==
  \/ ReceiveStatus
  \/ ReceiveAudio
  \/ IngestPacket
  \/ IngestDone
  \/ MainTranscribe
  \/ \E t \in WorkerIds : WorkerBegin(t)
  \/ \E t \in WorkerIds : WorkerSegment(t)
  \/ \E t \in WorkerIds : WorkerExhausted(t)
  \/ \E t \in WorkerIds : WorkerRaise(t)
  \/ \E t \in WorkerIds : WorkerCheck(t)
  \/ \E t \in WorkerIds : WorkerEmit(t)
  \/ TextAccept
  \/ CmdStart
  \/ StartResetBuffer
  \/ StartClearQueue
  \/ CmdStop
  \/ CmdReset
  \/ CancelJoinReturn


(***************************************************************************)
(* Part II: Orchestrator                                                   *)
(***************************************************************************)
MaxTexts == 2
MaxResets == 1
MaxTicks == 1
MaxConnects == 1
MaxChunks == 1

\* config.SESSION_TIMEOUT_SECONDS
SESSION_TIMEOUT_SECONDS == 60


UserTurn(n) == [role |-> "user", content |-> n]
AssistantTurn(n) == [role |-> "assistant", content |-> n]

StopMsg == [topic |-> "voice_output_control", type |-> "control", command |-> "stop", turn |-> 0]
SpeakMsg(n) == [topic |-> "voice_output_control", type |-> "speak", command |-> "", turn |-> n]
AudioMsg(n) == [topic |-> "voice_output_audio", type |-> "pcm", command |-> "", turn |-> n]

(* a line of the text connection as _handle_sr_text sees it: whether
   json.loads succeeds, payload.get("text", ""), payload.get("is_final", False) *)
TextLines ==
  {[json |-> TRUE, text |-> t, is_final |-> f] : t \in {"", "words"}, f \in BOOLEAN}
    \cup {[json |-> FALSE, text |-> "", is_final |-> FALSE]}

NoLine == [json |-> FALSE, text |-> "", is_final |-> FALSE]

(* a variant of _handle_sr_text without the `if is_final:` test *)
StartsTurnOnAnyText(line) == line.json /\ line.text # ""

(* _handle_sr_text: `if text:` and `if is_final:` both pass *)
StartsTurn(line) == line.json /\ line.text # "" /\ line.is_final

OInit ==
  /\ state = "IDLE"
  /\ history = <<>>
  /\ last_tts_end_time = 0
  /\ now = 0
  /\ session_log = <<>>
  /\ logging_enabled \in BOOLEAN
  /\ bus = <<>>
  /\ control_socket = FALSE
  /\ sr_commands = <<>>
  /\ text_socket = FALSE
  /\ running = TRUE
  /\ rd_pc = "idle"
  /\ rd_text = 0
  /\ rd_line = NoLine
  /\ rd_chunks = 0
  /\ rd_response = ""
  /\ engine_arg = <<>>
  /\ bt_pc = "idle"
  /\ cb_pc = "idle"
  /\ n_texts = 0
  /\ n_resets = 0
  /\ n_ticks = 0
  /\ n_conns = 0
  /\ turn_base = <<>>
  /\ turn_log = <<>>
  /\ turn_late = FALSE
  /\ turn_reset = FALSE

(* a variant of log_session without the `not self.history` test *)
LogSessionAlways(log, hist) ==
  IF ~logging_enabled THEN log ELSE Append(log, hist)

(* SessionManager.log_session: the log after the call *)
LogSession(log, hist) ==
  IF ~logging_enabled \/ hist = <<>> THEN log ELSE Append(log, hist)

(* a variant of check_timeout that clears at exactly SESSION_TIMEOUT too *)
TimedOutAtBoundary(hist, t, last) ==
  hist # <<>> /\ t - last >= SESSION_TIMEOUT_SECONDS

(* SessionManager.check_timeout: the condition under which it logs and clears *)
TimedOut(hist, t, last) ==
  hist # <<>> /\ t - last > SESSION_TIMEOUT_SECONDS

(* time passes *)
Tick ==
  /\ n_ticks < MaxTicks
  /\ n_ticks' = n_ticks + 1
  /\ \E d \in {SESSION_TIMEOUT_SECONDS, SESSION_TIMEOUT_SECONDS + 1} : now' = now + d
  /\ UNCHANGED <<state, history, last_tts_end_time, session_log, logging_enabled, bus,
                 control_socket, sr_commands, text_socket, running, rd_pc, rd_text, rd_line,
                 rd_chunks, rd_response, engine_arg, bt_pc, cb_pc, n_texts, n_resets, n_conns,
                 turn_base, turn_log, turn_late, turn_reset, besideOrch>>

(* SRClient._maintain_text_connection: the text connection is established *)
TextConnect ==
  /\ running
  /\ ~text_socket
  /\ text_socket' = TRUE
  /\ UNCHANGED <<state, history, last_tts_end_time, now, session_log, logging_enabled,
                 bus, control_socket, sr_commands, running, rd_pc, rd_text, rd_line, rd_chunks, rd_response,
                 engine_arg, bt_pc, cb_pc, n_texts, n_resets, n_ticks, n_conns,
                 turn_base, turn_log, turn_late, turn_reset, besideOrch>>

(* SRClient._read_text_loop: recv returns no data, the socket is dropped *)
TextClosed ==
  /\ text_socket
  /\ rd_pc = "idle"
  /\ text_socket' = FALSE
  /\ UNCHANGED <<state, history, last_tts_end_time, now, session_log, logging_enabled,
                 bus, control_socket, sr_commands, running, rd_pc, rd_text, rd_line, rd_chunks, rd_response,
                 engine_arg, bt_pc, cb_pc, n_texts, n_resets, n_ticks, n_conns,
                 turn_base, turn_log, turn_late, turn_reset, besideOrch>>

ReaderFrame == <<logging_enabled, control_socket, sr_commands, text_socket, running,
                 bt_pc, cb_pc, n_resets, n_ticks, n_conns, now, besideOrch>>

(* Orchestrator._handle_sr_text on a line that is no final non-empty text:
   bad JSON, empty text, or is_final = false *)
HandleOtherLine ==
  /\ running /\ text_socket /\ rd_pc = "idle"
  /\ n_texts < MaxTexts
  /\ n_texts' = n_texts + 1
  /\ \E line \in TextLines : ~StartsTurn(line)
  /\ UNCHANGED <<state, history, last_tts_end_time, session_log, bus, rd_pc, rd_text,
                 rd_line, rd_chunks, rd_response, engine_arg>>
  /\ UNCHANGED <<turn_base, turn_log, turn_late, turn_reset>>
  /\ UNCHANGED ReaderFrame

(* Orchestrator._handle_sr_text on a line whose JSON is no object (a list, a
   number, a string, null): json.loads succeeds, payload.get raises
   AttributeError, which only _read_text_loop's `except Exception` catches:
   the socket is dropped and the loop left, with the rest of its buffer *)
HandleNonObjectLine ==
  /\ running /\ text_socket /\ rd_pc = "idle"
  /\ n_texts < MaxTexts
  /\ n_texts' = n_texts + 1
  /\ text_socket' = FALSE
  /\ UNCHANGED <<state, history, last_tts_end_time, now, session_log, logging_enabled,
                 bus, control_socket, sr_commands, running, rd_pc, rd_text, rd_line,
                 rd_chunks, rd_response, engine_arg, bt_pc, cb_pc, n_resets, n_ticks,
                 n_conns, turn_base, turn_log, turn_late, turn_reset, besideOrch>>

(* Orchestrator._handle_sr_text on a final non-empty text, up to the
   condition of SessionManager.check_timeout *)
HandleSrText ==
  /\ running /\ text_socket /\ rd_pc = "idle"
  /\ n_texts < MaxTexts
  /\ n_texts' = n_texts + 1
  /\ \E line \in TextLines : StartsTurn(line) /\ rd_line' = line
  /\ rd_text' = n_texts + 1
  /\ rd_pc' = IF TimedOut(history, now, last_tts_end_time) THEN "tlog" ELSE "proc"
  /\ turn_base' = history
  /\ turn_log' = session_log
  /\ turn_late' = (now - last_tts_end_time > SESSION_TIMEOUT_SECONDS)
  /\ turn_reset' = FALSE
  /\ UNCHANGED <<state, history, last_tts_end_time, session_log, bus, rd_chunks, rd_response,
                 engine_arg>>
  /\ UNCHANGED ReaderFrame

TurnGhosts == <<turn_base, turn_log, turn_late, turn_reset>>

(* SessionManager.check_timeout: self.log_session() *)
ReaderTimeoutLog ==
  /\ rd_pc = "tlog"
  /\ rd_pc' = "tclear"
  /\ session_log' = LogSession(session_log, history)
  /\ UNCHANGED <<state, history, last_tts_end_time, bus, rd_text, rd_line, rd_chunks, rd_response,
                 engine_arg, n_texts>>
  /\ UNCHANGED TurnGhosts
  /\ UNCHANGED ReaderFrame

(* SessionManager.check_timeout: self.history = [] *)
ReaderTimeoutClear ==
  /\ rd_pc = "tclear"
  /\ rd_pc' = "proc"
  /\ history' = <<>>
  /\ UNCHANGED <<state, last_tts_end_time, session_log, bus, rd_text, rd_line, rd_chunks, rd_response,
                 engine_arg, n_texts>>
  /\ UNCHANGED TurnGhosts
  /\ UNCHANGED ReaderFrame

(* _handle_sr_text: self.state = State.PROCESSING *)
ReaderSetProcessing ==
  /\ rd_pc = "proc"
  /\ rd_pc' = "adduser"
  /\ state' = "PROCESSING"
  /\ UNCHANGED <<history, last_tts_end_time, session_log, bus, rd_text, rd_line, rd_chunks, rd_response,
                 engine_arg, n_texts>>
  /\ UNCHANGED TurnGhosts
  /\ UNCHANGED ReaderFrame

(* _process_text: session.add_user_message(text); session.update_tts_end() *)
ReaderAddUser ==
  /\ rd_pc = "adduser"
  /\ rd_pc' = "speaking"
  /\ history' = Append(history, UserTurn(rd_text))
  /\ last_tts_end_time' = now
  /\ UNCHANGED <<state, session_log, bus, rd_text, rd_line, rd_chunks, rd_response, engine_arg, n_texts>>
  /\ UNCHANGED TurnGhosts
  /\ UNCHANGED ReaderFrame

(* _process_text: self.state = State.SPEAKING; audio_processor.reset() *)
ReaderSetSpeaking ==
  /\ rd_pc = "speaking"
  /\ rd_pc' = "call"
  /\ state' = "SPEAKING"
  /\ UNCHANGED <<history, last_tts_end_time, session_log, bus, rd_text, rd_line, rd_chunks, rd_response,
                 engine_arg, n_texts>>
  /\ UNCHANGED TurnGhosts
  /\ UNCHANGED ReaderFrame

(* _process_text: engine.process(text, self.session.history, ...) is called;
   LLMClient.call builds the request from the history it is given *)
ReaderCallEngine ==
  /\ rd_pc = "call"
  /\ rd_pc' = "engine"
  /\ engine_arg' = history
  /\ UNCHANGED <<state, history, last_tts_end_time, session_log, bus, rd_text, rd_line,
                 rd_chunks, rd_response, n_texts>>
  /\ UNCHANGED TurnGhosts
  /\ UNCHANGED ReaderFrame

(* _on_audio_chunk / _publish_audio_chunk: the engine hands over a PCM chunk *)
EngineAudioChunk ==
  /\ rd_pc = "engine"
  /\ rd_chunks < MaxChunks
  /\ rd_chunks' = rd_chunks + 1
  /\ bus' = Append(bus, AudioMsg(rd_text))
  /\ UNCHANGED <<state, history, last_tts_end_time, session_log, rd_pc, rd_text, rd_line,
                 rd_response, engine_arg, n_texts>>
  /\ UNCHANGED TurnGhosts
  /\ UNCHANGED ReaderFrame

(* what engine.process can return: the reply; a placeholder string (LLMClient.call
   on a failed or malformed LLM call, CloudEngine on a failed request or
   after playing the audio); the empty string (an empty LLM reply, CloudEngine
   with an empty body) *)
EngineResponses == {"reply", "placeholder", ""}

(* engine.process returns; `if response_text:` *)
EngineReturn(response) ==
  /\ rd_pc = "engine"
  /\ rd_response' = response
  /\ rd_pc' = IF response = "" THEN "finish" ELSE "addasst"
  /\ UNCHANGED <<state, history, last_tts_end_time, session_log, bus, rd_text, rd_line,
                 rd_chunks, engine_arg, n_texts>>
  /\ UNCHANGED TurnGhosts
  /\ UNCHANGED ReaderFrame

EngineReturns == \E response \in EngineResponses : EngineReturn(response)

(* _process_text: session.add_assistant_message(response_text) *)
ReaderAddAssistant ==
  /\ rd_pc = "addasst"
  /\ rd_pc' = "speak"
  /\ history' = Append(history, AssistantTurn(rd_text))
  /\ UNCHANGED <<state, last_tts_end_time, session_log, bus, rd_text, rd_line, rd_chunks, rd_response,
                 engine_arg, n_texts>>
  /\ UNCHANGED TurnGhosts
  /\ UNCHANGED ReaderFrame

(* _process_text: the speak control message is published *)
ReaderPublishSpeak ==
  /\ rd_pc = "speak"
  /\ rd_pc' = "finish"
  /\ bus' = Append(bus, SpeakMsg(rd_text))
  /\ UNCHANGED <<state, history, last_tts_end_time, session_log, rd_text, rd_line, rd_chunks, rd_response,
                 engine_arg, n_texts>>
  /\ UNCHANGED TurnGhosts
  /\ UNCHANGED ReaderFrame

(* a variant of the end of _process_text with its last two statements inside
   `if response_text:` *)
ReaderFinishOnResponseOnly ==
  /\ rd_pc = "finish"
  /\ rd_pc' = "idle"
  /\ last_tts_end_time' = (IF rd_response # "" THEN now ELSE last_tts_end_time)
  /\ state' = (IF rd_response # "" THEN "LISTENING" ELSE state)
  /\ rd_text' = 0
  /\ rd_line' = NoLine
  /\ rd_chunks' = 0
  /\ rd_response' = ""
  /\ engine_arg' = <<>>
  /\ turn_base' = <<>>
  /\ turn_log' = <<>>
  /\ turn_late' = FALSE
  /\ turn_reset' = FALSE
  /\ UNCHANGED <<history, session_log, bus, n_texts>>
  /\ UNCHANGED ReaderFrame

(* _process_text: session.update_tts_end(); self.state = State.LISTENING *)
ReaderFinish ==
  /\ rd_pc = "finish"
  /\ rd_pc' = "idle"
  /\ last_tts_end_time' = now
  /\ state' = "LISTENING"
  /\ rd_text' = 0
  /\ rd_line' = NoLine
  /\ rd_chunks' = 0
  /\ rd_response' = ""
  /\ engine_arg' = <<>>
  /\ turn_base' = <<>>
  /\ turn_log' = <<>>
  /\ turn_late' = FALSE
  /\ turn_reset' = FALSE
  /\ UNCHANGED <<history, session_log, bus, n_texts>>
  /\ UNCHANGED ReaderFrame

ButtonFrame == <<last_tts_end_time, now, logging_enabled, text_socket, running, rd_pc,
                 rd_text, rd_line, rd_chunks, rd_response, engine_arg, cb_pc, n_texts, n_ticks, n_conns,
                 turn_base, turn_log, turn_late, besideOrch>>

(* _handle_button_event on LONG_RESET or VOLUME_*: logged only *)
ButtonOther ==
  /\ running /\ bt_pc = "idle"
  /\ \E event \in {"LONG_RESET", "VOLUME_UP", "VOLUME_DOWN"} : UNCHANGED vars

(* _buttons_listener_loop receives a RESET event, the max-th at most *)
ButtonResetUpTo(max) ==
  /\ running /\ bt_pc = "idle"
  /\ n_resets < max
  /\ n_resets' = n_resets + 1
  /\ bt_pc' = "log"
  /\ UNCHANGED <<state, history, session_log, bus, control_socket, sr_commands,
                 turn_reset>>
  /\ UNCHANGED ButtonFrame

ButtonReset == ButtonResetUpTo(MaxResets)

(* _handle_button_event: self.session.log_session() *)
ButtonLog ==
  /\ bt_pc = "log"
  /\ bt_pc' = "clear"
  /\ session_log' = LogSession(session_log, history)
  /\ UNCHANGED <<state, history, bus, control_socket, sr_commands, n_resets,
                 turn_reset>>
  /\ UNCHANGED ButtonFrame

(* _handle_button_event: self.session.clear() *)
ButtonClear ==
  /\ bt_pc = "clear"
  /\ bt_pc' = "publish"
  /\ history' = <<>>
  /\ turn_reset' = (turn_reset \/ rd_pc # "idle")
  /\ UNCHANGED <<state, session_log, bus, control_socket, sr_commands, n_resets>>
  /\ UNCHANGED ButtonFrame

(* _handle_button_event: the stop control message is published *)
ButtonPublishStop ==
  /\ bt_pc = "publish"
  /\ bt_pc' = "send"
  /\ bus' = Append(bus, StopMsg)
  /\ UNCHANGED <<state, history, session_log, control_socket, sr_commands, n_resets,
                 turn_reset>>
  /\ UNCHANGED ButtonFrame

(* SRClient.send_command(cmd): nothing without a control socket; a failed
   sendall drops the socket *)
SendCommand(cmd, ok) ==
  IF ~control_socket
  THEN UNCHANGED <<control_socket, sr_commands>>
  ELSE IF ok
  THEN /\ sr_commands' = Append(sr_commands, cmd)
       /\ UNCHANGED control_socket
  ELSE /\ control_socket' = FALSE
       /\ UNCHANGED sr_commands

(* _handle_button_event: self.sr.send_command("RESET") *)
ButtonSendReset ==
  /\ bt_pc = "send"
  /\ bt_pc' = "set"
  /\ \E ok \in BOOLEAN : SendCommand("RESET", ok)
  /\ UNCHANGED <<state, history, session_log, bus, n_resets, turn_reset>>
  /\ UNCHANGED ButtonFrame

(* _handle_button_event: self.state = State.LISTENING, the handler returns *)
ButtonSetListening ==
  /\ bt_pc = "set"
  /\ bt_pc' = "idle"
  /\ state' = "LISTENING"
  /\ UNCHANGED <<history, session_log, bus, control_socket, sr_commands, n_resets,
                 turn_reset>>
  /\ UNCHANGED ButtonFrame

ControlFrame == <<history, last_tts_end_time, now, session_log, logging_enabled, bus,
                  text_socket, running, rd_pc, rd_text, rd_line, rd_chunks, rd_response, engine_arg, bt_pc,
                  n_texts, n_resets, n_ticks, turn_base, turn_log, turn_late,
                  turn_reset, besideOrch>>

(* SRClient._maintain_control_connection: connect() succeeded *)
ControlConnect ==
  /\ running /\ cb_pc = "idle"
  /\ ~control_socket
  /\ n_conns < MaxConnects
  /\ n_conns' = n_conns + 1
  /\ control_socket' = TRUE
  /\ cb_pc' = "start"
  /\ UNCHANGED <<state, sr_commands>>
  /\ UNCHANGED ControlFrame

(* Orchestrator._on_sr_connect: self.sr.send_command("START") *)
OnSrConnectSend ==
  /\ cb_pc = "start"
  /\ cb_pc' = "listen"
  /\ \E ok \in BOOLEAN : SendCommand("START", ok)
  /\ UNCHANGED <<state, n_conns>>
  /\ UNCHANGED ControlFrame

(* Orchestrator._on_sr_connect: self.state = State.LISTENING *)
OnSrConnectListening ==
  /\ cb_pc = "listen"
  /\ cb_pc' = "idle"
  /\ state' = "LISTENING"
  /\ UNCHANGED <<control_socket, sr_commands, n_conns>>
  /\ UNCHANGED ControlFrame

(* Orchestrator.stop: running = False, log_session(), sr.stop() *)
OrchStop ==
  /\ running
  /\ running' = FALSE
  /\ session_log' = LogSession(session_log, history)
  /\ control_socket' = FALSE
  /\ text_socket' = FALSE
  /\ UNCHANGED <<state, history, last_tts_end_time, now, logging_enabled, bus,
                 sr_commands, rd_pc, rd_text, rd_line, rd_chunks, rd_response, engine_arg, bt_pc, cb_pc,
                 n_texts, n_resets, n_ticks, n_conns, turn_base, turn_log, turn_late,
                 turn_reset, besideOrch>>

ONext ==
  \/ Tick
  \/ TextConnect
  \/ TextClosed
  \/ HandleOtherLine
  \/ HandleNonObjectLine
  \/ HandleSrText
  \/ ReaderTimeoutLog
  \/ ReaderTimeoutClear
  \/ ReaderSetProcessing
  \/ ReaderAddUser
  \/ ReaderSetSpeaking
  \/ ReaderCallEngine
  \/ EngineAudioChunk
  \/ EngineReturns
  \/ ReaderAddAssistant
  \/ ReaderPublishSpeak
  \/ ReaderFinish
  \/ ButtonOther
  \/ ButtonReset
  \/ ButtonLog
  \/ ButtonClear
  \/ ButtonPublishStop
  \/ ButtonSendReset
  \/ ButtonSetListening
  \/ ControlConnect
  \/ OnSrConnectSend
  \/ OnSrConnectListening
  \/ OrchStop

(***************************************************************************)
(* Part III: the Voice-Input main loop (network_voice_input/main.py; the   *)
(* loop of voice_input/main.py is the same with a hangover of 500 ms)      *)
(***************************************************************************)
MaxVoiceChunks == 5

\* config.SILENCE_DURATION_MS
SILENCE_DURATION_MS == 2000

NoTime == -1

(* the time between two chunks, in ms: none, half a hangover, a hangover *)
ChunkGaps == {0, SILENCE_DURATION_MS \div 2, SILENCE_DURATION_MS}

(* alicepi_proto.vad.make_audio_packet / make_status_packet *)
MakeAudioPacket(seq, t) ==
  [payload |-> "audio", status |-> "UNKNOWN", sequence |-> seq, timestamp_ms |-> t]

MakeStatusPacket(s, t) ==
  [payload |-> "status", status |-> s, sequence |-> 0, timestamp_ms |-> t]

VoiceInit ==
  /\ last_speech_time = NoTime
  /\ last_status = "SILENCE"
  /\ sequence = 0
  /\ current_time = 0
  /\ emitted = <<>>
  /\ n_chunks = 0
  /\ chunk_is_speech = FALSE
  /\ speech_at = NoTime
  /\ past_hangover = 0

(* a variant of the status emission without the `last_status !=` test *)
StatusAlways(last, s, t) == <<MakeStatusPacket(s, t)>>

(* main(): `if last_status != S:` send the status packet S *)
StatusOnTransition(last, s, t) ==
  IF last # s THEN <<MakeStatusPacket(s, t)>> ELSE <<>>

(* a variant of the audio emission that does not advance the counter *)
AudioWithStaleSequence(seq, t) == [sequence |-> seq, packet |-> MakeAudioPacket(seq, t)]

(* main(): `sequence += 1` and make_audio_packet(sequence=sequence, ...) *)
NextAudio(seq, t) == [sequence |-> seq + 1, packet |-> MakeAudioPacket(seq + 1, t)]

(* a variant of the hangover test that still streams at exactly the hangover *)
InHangoverInclusive(t, last) == t - last <= SILENCE_DURATION_MS

(* main(): `time_since_speech < hangover_duration` *)
InHangover(t, last) == t - last < SILENCE_DURATION_MS

(* main(): one iteration of `while True` on a chunk read at time t *)
VoiceIteration(is_speech, t) ==
  IF is_speech
  THEN LET a == NextAudio(sequence, t) IN
         /\ sequence' = a.sequence
         /\ emitted' = emitted \o <<a.packet>>
                         \o StatusOnTransition(last_status, "SPEECH_DETECTED", t)
         /\ last_status' = "SPEECH_DETECTED"
         /\ last_speech_time' = t
  ELSE IF last_speech_time # NoTime
  THEN IF InHangover(t, last_speech_time)
       THEN LET a == NextAudio(sequence, t) IN
              /\ sequence' = a.sequence
              /\ emitted' = emitted \o <<a.packet>>
                              \o StatusOnTransition(last_status, "SPEECH_HANGOVER", t)
              /\ last_status' = "SPEECH_HANGOVER"
              /\ UNCHANGED last_speech_time
       ELSE /\ emitted' = emitted \o StatusOnTransition(last_status, "SILENCE", t)
            /\ last_status' = "SILENCE"
            /\ last_speech_time' = NoTime
            /\ UNCHANGED sequence
  ELSE /\ emitted' = emitted \o StatusOnTransition(last_status, "SILENCE", t)
       /\ last_status' = "SILENCE"
       /\ UNCHANGED <<sequence, last_speech_time>>

(* read_chunk() returns a chunk, time.time() is read, vad.process classifies it *)
VoiceChunk(is_speech, gap) ==
  /\ n_chunks < MaxVoiceChunks
  /\ n_chunks' = n_chunks + 1
  /\ current_time' = current_time + gap
  /\ chunk_is_speech' = is_speech
  /\ VoiceIteration(is_speech, current_time + gap)
  /\ speech_at' = IF is_speech THEN current_time + gap ELSE speech_at
  /\ past_hangover' =
       IF is_speech THEN 0
       ELSE IF speech_at # NoTime /\ current_time + gap >= speech_at + SILENCE_DURATION_MS
       THEN past_hangover + 1
       ELSE past_hangover
  /\ UNCHANGED besideVoice

VoiceSpeechChunk == \E gap \in ChunkGaps : VoiceChunk(TRUE, gap)

VoiceOtherChunk == \E gap \in ChunkGaps : VoiceChunk(FALSE, gap)

VoiceNext == VoiceSpeechChunk \/ VoiceOtherChunk

(***************************************************************************)
(* Part IV: the AudioStreamer of Voice-Input (network_voice_input/         *)
(* streamer.py; voice_input/streamer.py is the same without the counters). *)
(* Two threads: the caller of send_packet and the _connect_loop thread.    *)
(***************************************************************************)
MaxSendCalls == 4
MaxBroken == 2
MaxRefused == 1

(* every broken connection can be replaced *)
MaxStreamConns == MaxBroken + 1

StreamerInit ==
  /\ st_socket = 0
  /\ st_lock = "free"
  /\ st_drop_packets = 0
  /\ conn_pc = "check"
  /\ conn_sock = 0
  /\ send_pc = "idle"
  /\ send_packet_arg = 0
  /\ delivered = <<>>
  /\ unconnected = {}
  /\ n_calls = 0
  /\ n_conns_made = 0
  /\ n_broken = 0
  /\ n_refused = 0

SenderFrame == <<conn_pc, conn_sock, n_conns_made, n_refused, besideStreamer>>

(* the main loop calls streamer.send_packet(packet); encode_packet *)
SendCall ==
  /\ send_pc = "idle"
  /\ n_calls < MaxSendCalls
  /\ n_calls' = n_calls + 1
  /\ send_packet_arg' = n_calls + 1
  /\ send_pc' = "lock"
  /\ UNCHANGED <<st_socket, st_lock, st_drop_packets, delivered, unconnected, n_broken>>
  /\ UNCHANGED SenderFrame

(* send_packet: `with self.lock:` is entered *)
SendAcquire ==
  /\ send_pc = "lock"
  /\ st_lock = "free"
  /\ st_lock' = "sender"
  /\ send_pc' = "locked"
  /\ UNCHANGED <<st_socket, st_drop_packets, send_packet_arg, delivered, unconnected,
                 n_calls, n_broken>>
  /\ UNCHANGED SenderFrame

(* a variant of send_packet that returns without counting the drop *)
SendWithoutSocketUncounted ==
  /\ unconnected' = unconnected \cup {send_packet_arg}
  /\ UNCHANGED <<st_socket, st_drop_packets, delivered, n_broken>>

(* send_packet, `if not self.socket:` the packet is counted and dropped *)
SendWithoutSocket ==
  /\ st_drop_packets' = st_drop_packets + 1
  /\ unconnected' = unconnected \cup {send_packet_arg}
  /\ UNCHANGED <<st_socket, delivered, n_broken>>

(* send_packet, self.socket.sendall(payload): it returns, or it raises and
   the socket is closed and set to None *)
SendOnSocket(ok) ==
  IF ok
  THEN /\ delivered' = Append(delivered, [conn |-> st_socket, packet |-> send_packet_arg])
       /\ UNCHANGED <<st_socket, st_drop_packets, unconnected, n_broken>>
  ELSE /\ n_broken < MaxBroken
       /\ n_broken' = n_broken + 1
       /\ st_socket' = 0
       /\ UNCHANGED <<st_drop_packets, delivered, unconnected>>

(* send_packet: the body of `with self.lock:` *)
SendLocked ==
  /\ send_pc = "locked"
  /\ send_pc' = "unlock"
  /\ IF st_socket = 0
     THEN SendWithoutSocket
     ELSE \E ok \in BOOLEAN : SendOnSocket(ok)
  /\ UNCHANGED <<st_lock, send_packet_arg, n_calls>>
  /\ UNCHANGED SenderFrame

(* send_packet: the lock is released, the call returns *)
SendRelease ==
  /\ send_pc = "unlock"
  /\ send_pc' = "idle"
  /\ st_lock' = "free"
  /\ send_packet_arg' = 0
  /\ UNCHANGED <<st_socket, st_drop_packets, delivered, unconnected, n_calls, n_broken>>
  /\ UNCHANGED SenderFrame

ConnectFrame == <<st_drop_packets, send_pc, send_packet_arg, delivered, unconnected,
                  n_calls, n_broken, besideStreamer>>

(* _connect_loop: `if self.socket is None:`, read without the lock *)
ConnCheck ==
  /\ conn_pc = "check"
  /\ st_socket = 0
  /\ conn_pc' = "connect"
  /\ UNCHANGED <<st_socket, st_lock, conn_sock, n_conns_made, n_refused>>
  /\ UNCHANGED ConnectFrame

(* _connect_loop: sock.connect(self._addr) succeeds *)
ConnConnected ==
  /\ conn_pc = "connect"
  /\ n_conns_made < MaxStreamConns
  /\ n_conns_made' = n_conns_made + 1
  /\ conn_sock' = n_conns_made + 1
  /\ conn_pc' = "lock"
  /\ UNCHANGED <<st_socket, st_lock, n_refused>>
  /\ UNCHANGED ConnectFrame

(* _connect_loop: connect raises; sleep(2); continue *)
ConnRefused ==
  /\ conn_pc = "connect"
  /\ n_refused < MaxRefused
  /\ n_refused' = n_refused + 1
  /\ conn_pc' = "check"
  /\ UNCHANGED <<st_socket, st_lock, conn_sock, n_conns_made>>
  /\ UNCHANGED ConnectFrame

(* a variant of _connect_loop that installs the socket without the lock *)
ConnAcquireUnlocked ==
  /\ conn_pc = "lock"
  /\ st_lock' = "connector"
  /\ conn_pc' = "set"
  /\ UNCHANGED <<st_socket, conn_sock, n_conns_made, n_refused>>
  /\ UNCHANGED ConnectFrame

(* _connect_loop: `with self.lock:` is entered *)
ConnAcquire ==
  /\ conn_pc = "lock"
  /\ st_lock = "free"
  /\ st_lock' = "connector"
  /\ conn_pc' = "set"
  /\ UNCHANGED <<st_socket, conn_sock, n_conns_made, n_refused>>
  /\ UNCHANGED ConnectFrame

(* _connect_loop: self.socket = sock *)
ConnSet ==
  /\ conn_pc = "set"
  /\ st_socket' = conn_sock
  /\ conn_pc' = "unlock"
  /\ UNCHANGED <<st_lock, conn_sock, n_conns_made, n_refused>>
  /\ UNCHANGED ConnectFrame

(* _connect_loop: the lock is released; sleep(1); next iteration *)
ConnRelease ==
  /\ conn_pc = "unlock"
  /\ conn_pc' = "check"
  /\ st_lock' = "free"
  /\ conn_sock' = 0
  /\ UNCHANGED <<st_socket, n_conns_made, n_refused>>
  /\ UNCHANGED ConnectFrame

SendPacket == SendCall \/ SendAcquire \/ SendLocked \/ SendRelease

ConnectLoop == ConnCheck \/ ConnConnected \/ ConnAcquire \/ ConnSet \/ ConnRelease

StreamerNext == SendPacket \/ ConnectLoop \/ ConnRefused

(***************************************************************************)
(* Part V: the length-prefixed framing of VadPackets                       *)
(* (proto_defs/src/alicepi_proto/vad.py).  Bytes are numbers 0..255, a     *)
(* byte string is a sequence of them.                                      *)
(***************************************************************************)
MaxPayloadLen == 2
MaxFramerPackets == 2

LENGTH_PREFIX_BYTES == 4

SeqsUpTo(S, n) == UNION {[1..k -> S] : k \in 0..n}

(* the bytes serialized payloads are made of; they include bytes that a
   length prefix is made of as well *)
PayloadBytes == {0, 1}

(* a VadPacket is known by its serialized payload (vad_pb2 is generated
   code); the default packet serializes to the empty payload *)
VadPackets == {[payload |-> b] : b \in SeqsUpTo(PayloadBytes, MaxPayloadLen)}

SerializeToString(packet) == packet.payload

ParseFromString(payload) == [payload |-> payload]

(* struct.pack(">I", n) *)
PackLength(n) ==
  <<(n \div 16777216) % 256, (n \div 65536) % 256, (n \div 256) % 256, n % 256>>

(* struct.unpack("<I", b)[0], the other byte order *)
UnpackLengthLittleEndian(b) == b[1] + 256 * b[2] + 65536 * b[3] + 16777216 * b[4]

(* struct.unpack(">I", b)[0] *)
UnpackLength(b) == 16777216 * b[1] + 65536 * b[2] + 256 * b[3] + b[4]

encode_packet(packet) ==
  PackLength(Len(SerializeToString(packet))) \o SerializeToString(packet)

RECURSIVE EncodeAll(_)
(* concat(encode_packet(P1), ..., encode_packet(Pn)) *)
EncodeAll(packets) ==
  IF packets = <<>> THEN <<>> ELSE encode_packet(Head(packets)) \o EncodeAll(Tail(packets))

RECURSIVE DecodeLoop(_, _)
(* the while loop of VadPacketFramer.decode *)
DecodeLoop(buffer, packets) ==
  IF Len(buffer) < LENGTH_PREFIX_BYTES
  THEN [buffer |-> buffer, packets |-> packets]
  ELSE LET message_len == UnpackLength(SubSeq(buffer, 1, LENGTH_PREFIX_BYTES))
           end == LENGTH_PREFIX_BYTES + message_len
       IN IF Len(buffer) < end
          THEN [buffer |-> buffer, packets |-> packets]
          ELSE DecodeLoop(SubSeq(buffer, end + 1, Len(buffer)),
                          Append(packets,
                                 ParseFromString(SubSeq(buffer, LENGTH_PREFIX_BYTES + 1, end))))

(* VadPacketFramer.decode(data) on a framer whose _buffer is buffer *)
decode(buffer, data) == DecodeLoop(buffer \o data, <<>>)

(* VadPacketFramer.__init__, nothing on the wire *)
FramerInit ==
  /\ fr_buffer = <<>>
  /\ fr_wire = <<>>
  /\ fr_sent = <<>>
  /\ fr_decoded = <<>>
  /\ fr_calls = 0

(* a new framer, and on the wire the encodings of a sequence of packets *)
RoundTripInit ==
  \E packets \in SeqsUpTo(VadPackets, MaxFramerPackets) :
    /\ fr_sent = packets
    /\ fr_wire = EncodeAll(packets)
    /\ fr_buffer = <<>>
    /\ fr_decoded = <<>>
    /\ fr_calls = 0

(* the ceiling a framer would be configured with: the longest payload a
   peer of the model sends *)
FrameCeiling == MaxPayloadLen

(* 127 is the largest byte whose four-byte word stays below 2^31 *)
HostileBytes == {0, 127}

MaxHostileLen == LENGTH_PREFIX_BYTES + FrameCeiling + 1

(* a new framer, and on the wire bytes that no encode_packet produced *)
HostileInit ==
  /\ fr_wire \in SeqsUpTo(HostileBytes, MaxHostileLen)
  /\ fr_sent = <<>>
  /\ fr_buffer = <<>>
  /\ fr_decoded = <<>>
  /\ fr_calls = 0

(* _receive_loop: data = recv(...); packets = self.framer.decode(data) with
   the next k bytes of the stream, any k *)
FramerDecode ==
  /\ fr_wire # <<>>
  /\ \E k \in 1..Len(fr_wire) :
       LET r == decode(fr_buffer, SubSeq(fr_wire, 1, k))
       IN /\ fr_buffer' = r.buffer
          /\ fr_decoded' = fr_decoded \o r.packets
          /\ fr_wire' = SubSeq(fr_wire, k + 1, Len(fr_wire))
  /\ fr_calls' = fr_calls + 1
  /\ UNCHANGED fr_sent
  /\ UNCHANGED besideFramer

(***************************************************************************)
(* Part VI: the chunk queue of NetworkReceiver                             *)
(* (network_voice_input/receiver.py): one producer, _handle_client, and    *)
(* one consumer, read_chunk.  Each queue.Queue call is atomic.             *)
(***************************************************************************)
MaxChunksIn == 102

\* queue.Queue(maxsize=100)
AUDIO_QUEUE_MAXSIZE == 100

ReceiverInit ==
  /\ audio_queue = <<>>
  /\ nr_pc = "recv"
  /\ nr_chunk = 0
  /\ n_chunks_in = 0
  /\ n_read = 0

(* _handle_client: a chunk is cut from the buffer *)
CutChunk ==
  /\ nr_pc = "recv"
  /\ n_chunks_in < MaxChunksIn
  /\ n_chunks_in' = n_chunks_in + 1
  /\ nr_chunk' = n_chunks_in + 1
  /\ nr_pc' = "put"
  /\ UNCHANGED <<audio_queue, n_read, besideReceiver>>

(* _handle_client: audio_queue.put(chunk, block=False), raising queue.Full
   on a full queue *)
PutChunk ==
  /\ nr_pc = "put"
  /\ IF Len(audio_queue) < AUDIO_QUEUE_MAXSIZE
     THEN /\ audio_queue' = Append(audio_queue, nr_chunk)
          /\ nr_pc' = "recv"
     ELSE /\ nr_pc' = "evict"
          /\ UNCHANGED audio_queue
  /\ UNCHANGED <<nr_chunk, n_chunks_in, n_read, besideReceiver>>

(* _handle_client, except queue.Full: audio_queue.get_nowait(); queue.Empty
   is caught by `except Exception: pass` and the chunk is given up *)
EvictOldest ==
  /\ nr_pc = "evict"
  /\ IF audio_queue # <<>>
     THEN /\ audio_queue' = Tail(audio_queue)
          /\ nr_pc' = "reput"
     ELSE /\ nr_pc' = "recv"
          /\ UNCHANGED audio_queue
  /\ UNCHANGED <<nr_chunk, n_chunks_in, n_read, besideReceiver>>

(* _handle_client, except queue.Full: the second audio_queue.put(chunk,
   block=False) *)
PutAgain ==
  /\ nr_pc = "reput"
  /\ nr_pc' = "recv"
  /\ IF Len(audio_queue) < AUDIO_QUEUE_MAXSIZE
     THEN audio_queue' = Append(audio_queue, nr_chunk)
     ELSE UNCHANGED audio_queue
  /\ UNCHANGED <<nr_chunk, n_chunks_in, n_read, besideReceiver>>

(* read_chunk: audio_queue.get(timeout=0.1) returns a chunk *)
ReadChunk ==
  /\ audio_queue # <<>>
  /\ audio_queue' = Tail(audio_queue)
  /\ n_read' = n_read + 1
  /\ UNCHANGED <<nr_pc, nr_chunk, n_chunks_in, besideReceiver>>

ReceiverNext == CutChunk \/ PutChunk \/ EvictOldest \/ PutAgain \/ ReadChunk

(***************************************************************************)
(* Part VII: the accept loops of Speech-Rec's audio, control and text      *)
(* ports (audio_stream.py _accept_loop, main.py _control_accept_loop and   *)
(* _text_accept_loop)                                                      *)
(***************************************************************************)
MaxClients == 2
MaxServes == 2

Ports == {"audio", "control", "text"}

PortsInit ==
  /\ pt_connected = [p \in Ports |-> {}]
  /\ pt_taken = [p \in Ports |-> {}]
  /\ pt_accepted = [p \in Ports |-> {}]
  /\ pt_served = [p \in Ports |-> <<>>]
  /\ pt_n = [p \in Ports |-> 0]

(* the clients of port p that connected and that accept() has not returned *)
Pending(p) == {c \in 1..pt_n[p] : c \notin pt_taken[p]}

(* a client connects to port p; listen(1) holds it until accept() *)
PortConnect(p) ==
  /\ pt_n[p] < MaxClients
  /\ pt_n' = [pt_n EXCEPT ![p] = @ + 1]
  /\ pt_connected' = [pt_connected EXCEPT ![p] = @ \cup {pt_n[p] + 1}]
  /\ UNCHANGED <<pt_taken, pt_accepted, pt_served, besidePorts>>

(* accept() returns the oldest pending client.  audio: _accept_loop is at
   accept() only while no _receive_loop runs, and then runs it; control: a
   new _handle_control_client thread is started beside the running ones;
   text: text_socket is overwritten *)
PortAccept(p) ==
  /\ Pending(p) # {}
  /\ p = "audio" => pt_accepted[p] = {}
  /\ LET c == CHOOSE x \in Pending(p) : \A y \in Pending(p) : x <= y
     IN /\ pt_taken' = [pt_taken EXCEPT ![p] = @ \cup {c}]
        /\ pt_accepted' = [pt_accepted EXCEPT ![p] =
                             IF p = "control" THEN @ \cup {c} ELSE {c}]
  /\ UNCHANGED <<pt_connected, pt_served, pt_n, besidePorts>>

(* audio, control: recv() on an accepted client returns its bytes, which are
   decoded or processed as a command; text: _emit_text sends a line to
   text_socket, and on a failed send sets text_socket to None *)
PortServe(p, c) ==
  /\ c \in pt_accepted[p]
  /\ Len(pt_served[p]) < MaxServes
  /\ IF c \in pt_connected[p]
     THEN /\ pt_served' = [pt_served EXCEPT ![p] = Append(@, c)]
          /\ UNCHANGED pt_accepted
     ELSE /\ pt_accepted' = [pt_accepted EXCEPT ![p] = @ \ {c}]
          /\ UNCHANGED pt_served
  /\ UNCHANGED <<pt_connected, pt_taken, pt_n, besidePorts>>

(* client c closes its connection *)
PortDisconnect(p, c) ==
  /\ c \in pt_connected[p]
  /\ pt_connected' = [pt_connected EXCEPT ![p] = @ \ {c}]
  /\ UNCHANGED <<pt_taken, pt_accepted, pt_served, pt_n, besidePorts>>

PortsNext ==
  \/ \E p \in Ports : PortConnect(p)
  \/ \E p \in Ports : PortAccept(p)
  \/ \E p \in Ports : \E c \in 1..MaxClients : PortServe(p, c)
  \/ \E p \in Ports : \E c \in 1..MaxClients : PortDisconnect(p, c)

(***************************************************************************)
(* Part VIII: the receive loop of Voice-Output (voice_output/main.py)      *)
(***************************************************************************)
MaxMessages == 4

(* main() has opened the SUB socket and the output stream *)
OutputInit ==
  /\ vo_running = TRUE
  /\ vo_written = <<>>
  /\ vo_logged = {}
  /\ vo_n = 0

(* one iteration of the loop for a message of the audio topic:
   _convert_channels raises ValueError (logged, continue), or the stream is
   inactive (warning), or stream.write(payload) returns, or stream.write
   raises: no except clause of main() catches that, the finally block runs
   and main() ends *)
HandleAudio(converts, active, written) ==
  /\ vo_running
  /\ vo_n < MaxMessages
  /\ vo_n' = vo_n + 1
  /\ IF ~converts \/ ~active
     THEN /\ vo_logged' = vo_logged \cup {vo_n + 1}
          /\ UNCHANGED <<vo_running, vo_written>>
     ELSE IF written
     THEN /\ vo_written' = Append(vo_written, vo_n + 1)
          /\ UNCHANGED <<vo_running, vo_logged>>
     ELSE /\ vo_running' = FALSE
          /\ UNCHANGED <<vo_written, vo_logged>>
  /\ UNCHANGED besideOutput

(* one iteration for a message of the control topic: json.loads and
   handle_command, any exception logged *)
HandleControl(parses) ==
  /\ vo_running
  /\ vo_n < MaxMessages
  /\ vo_n' = vo_n + 1
  /\ vo_logged' = IF parses THEN vo_logged ELSE vo_logged \cup {vo_n + 1}
  /\ UNCHANGED <<vo_running, vo_written, besideOutput>>

(* one iteration for a message that is not [topic, payload]: ValueError,
   continue *)
IgnoreMalformed ==
  /\ vo_running
  /\ vo_n < MaxMessages
  /\ vo_n' = vo_n + 1
  /\ UNCHANGED <<vo_running, vo_written, vo_logged, besideOutput>>

OutputNext ==
  \/ \E converts, active, written \in BOOLEAN : HandleAudio(converts, active, written)
  \/ \E parses \in BOOLEAN : HandleControl(parses)
  \/ IgnoreMalformed

(***************************************************************************)
(* Part IX: the utterance buffer of AudioTranscriber                       *)
(* (speech_rec/transcriber.py): process_raw_bytes, drain_audio and reset,  *)
(* each called from a thread of its own                                    *)
(***************************************************************************)
MaxAppends == 3
MaxBufferOps == 3

BufferInit ==
  /\ tb_buffer = <<>>
  /\ tb_lock = "free"
  /\ ap_pc = "idle"
  /\ dr_pc = "idle"
  /\ rs_pc = "idle"
  /\ dr_audio = <<>>
  /\ tb_snapshots = <<>>
  /\ tb_removed = {}
  /\ tb_n = 0
  /\ tb_ops = 0

(* process_raw_bytes: `with self._buffer_lock:` is entered *)
AppendAcquire ==
  /\ ap_pc = "idle"
  /\ tb_n < MaxAppends
  /\ tb_lock = "free"
  /\ tb_lock' = "append"
  /\ ap_pc' = "locked"
  /\ UNCHANGED <<tb_buffer, dr_pc, rs_pc, dr_audio, tb_snapshots, tb_removed, tb_n,
                 tb_ops, besideBuffer>>

(* process_raw_bytes: the buffer is replaced by its concatenation with the
   new sample; the lock is released *)
AppendConcat ==
  /\ ap_pc = "locked"
  /\ ap_pc' = "idle"
  /\ tb_n' = tb_n + 1
  /\ tb_buffer' = Append(tb_buffer, tb_n + 1)
  /\ tb_lock' = "free"
  /\ UNCHANGED <<dr_pc, rs_pc, dr_audio, tb_snapshots, tb_removed, tb_ops, besideBuffer>>

(* a variant of drain_audio that does not take the lock *)
DrainAcquireUnlocked ==
  /\ dr_pc = "idle"
  /\ tb_ops < MaxBufferOps
  /\ tb_ops' = tb_ops + 1
  /\ dr_pc' = "locked"
  /\ UNCHANGED <<tb_buffer, tb_lock, ap_pc, rs_pc, dr_audio, tb_snapshots, tb_removed,
                 tb_n, besideBuffer>>

(* drain_audio: `with self._buffer_lock:` is entered *)
DrainAcquire ==
  /\ dr_pc = "idle"
  /\ tb_ops < MaxBufferOps
  /\ tb_ops' = tb_ops + 1
  /\ tb_lock = "free"
  /\ tb_lock' = "drain"
  /\ dr_pc' = "locked"
  /\ UNCHANGED <<tb_buffer, ap_pc, rs_pc, dr_audio, tb_snapshots, tb_removed, tb_n,
                 besideBuffer>>

(* the lock after drain_audio has left its `with` block *)
DrainUnlock == IF tb_lock = "drain" THEN "free" ELSE tb_lock

(* drain_audio: an empty buffer, or one shorter than min_samples, returns
   None; else audio = buffer.copy() *)
DrainCopy ==
  /\ dr_pc = "locked"
  /\ \E too_short \in BOOLEAN :
     IF tb_buffer = <<>> \/ too_short
     THEN /\ dr_pc' = "idle"
          /\ tb_lock' = DrainUnlock
          /\ UNCHANGED dr_audio
     ELSE /\ dr_pc' = "copied"
          /\ dr_audio' = tb_buffer
          /\ UNCHANGED tb_lock
  /\ UNCHANGED <<tb_buffer, ap_pc, rs_pc, tb_snapshots, tb_removed, tb_n, tb_ops,
                 besideBuffer>>

(* drain_audio: the buffer is replaced by an empty array, the lock is
   released and audio is returned *)
DrainClear ==
  /\ dr_pc = "copied"
  /\ dr_pc' = "idle"
  /\ tb_buffer' = <<>>
  /\ tb_snapshots' = Append(tb_snapshots, dr_audio)
  /\ dr_audio' = <<>>
  /\ tb_lock' = DrainUnlock
  /\ UNCHANGED <<ap_pc, rs_pc, tb_removed, tb_n, tb_ops, besideBuffer>>

(* reset: `with self._buffer_lock:` is entered *)
ResetAcquire ==
  /\ rs_pc = "idle"
  /\ tb_ops < MaxBufferOps
  /\ tb_ops' = tb_ops + 1
  /\ tb_lock = "free"
  /\ tb_lock' = "reset"
  /\ rs_pc' = "locked"
  /\ UNCHANGED <<tb_buffer, ap_pc, dr_pc, dr_audio, tb_snapshots, tb_removed, tb_n,
                 besideBuffer>>

(* reset: the buffer is replaced by an empty array, the lock is released *)
ResetClear ==
  /\ rs_pc = "locked"
  /\ rs_pc' = "idle"
  /\ tb_removed' = tb_removed \cup {tb_buffer[i] : i \in 1..Len(tb_buffer)}
  /\ tb_buffer' = <<>>
  /\ tb_lock' = "free"
  /\ UNCHANGED <<ap_pc, dr_pc, dr_audio, tb_snapshots, tb_n, tb_ops, besideBuffer>>

BufferNext ==
  \/ AppendAcquire
  \/ AppendConcat
  \/ DrainAcquire
  \/ DrainCopy
  \/ DrainClear
  \/ ResetAcquire
  \/ ResetClear

(***************************************************************************)
(* Part X: the audio connection of Speech-Rec                              *)
(* (speech_rec/audio_stream.py, AudioStreamServer._accept_loop and         *)
(* _receive_loop, with VadPacketFramer.decode)                             *)
(***************************************************************************)
MaxFrames == 3

(* what the payload of a frame is: an audio packet, a status packet with a
   known value, a packet with no payload set, a status packet with a value
   outside the enum, bytes that are no VadPacket *)
FrameKinds == {"audio", "status", "none", "unknown_status", "garbage"}

AudioServerInit ==
  /\ as_client = "none"
  /\ as_sent = <<>>
  /\ as_wire = <<>>
  /\ as_queue = <<>>
  /\ as_last_status = 0

(* a client that is about to connect and send up to MaxFrames frames *)
AudioClientInit ==
  /\ as_client = "none"
  /\ as_sent \in UNION {[1..n -> FrameKinds] : n \in 1..MaxFrames}
  /\ as_wire = as_sent
  /\ as_queue = <<>>
  /\ as_last_status = 0

(* VadPacketFramer.decode: packet.ParseFromString(payload) raises DecodeError
   on the first frame that is no VadPacket, and the call returns nothing *)
DecodeRaises(batch) == \E i \in 1..Len(batch) : batch[i] = "garbage"

(* _receive_loop, lines 75-81, for the packets of one decode() call, in
   order; pos is the position of the packet before the first of them.
   A status outside the enum is either kept as a number (open enum: Status.Name
   raises ValueError in the log line) or dropped by the parser (closed enum:
   the packet has no payload); which one depends on the generated vad_pb2.
   The result is the queue, last_status and whether the loop goes on. *)
RECURSIVE QueuePackets(_, _, _, _, _)
QueuePackets(batch, pos, q, last, open_enum) ==
  IF batch = <<>> THEN [queue |-> q, last_status |-> last, ok |-> TRUE]
  ELSE LET kind == Head(batch)
       IN IF kind = "unknown_status" /\ open_enum
          THEN [queue |-> q, last_status |-> pos + 1, ok |-> FALSE]
          ELSE QueuePackets(Tail(batch), pos + 1,
                            IF kind \in {"audio", "status"} THEN Append(q, pos + 1) ELSE q,
                            IF kind = "status" THEN pos + 1 ELSE last,
                            open_enum)

(* _accept_loop: the client is accepted and _receive_loop is entered *)
AudioAccept ==
  /\ as_client = "none"
  /\ as_wire # <<>>
  /\ as_client' = "serving"
  /\ UNCHANGED <<as_wire, as_sent, as_queue, as_last_status, besideAudioServer>>

(* _receive_loop: one recv() that returns the next k whole frames, decode(),
   and the loop over the decoded packets *)
ReceiveFrames ==
  /\ as_client = "serving"
  /\ \E k \in 1..Len(as_wire), open_enum \in BOOLEAN :
       LET batch == SubSeq(as_wire, 1, k)
           pos == Len(as_sent) - Len(as_wire)
           r == QueuePackets(batch, pos, as_queue, as_last_status, open_enum)
       IN /\ as_wire' = SubSeq(as_wire, k + 1, Len(as_wire))
          /\ IF DecodeRaises(batch)
             THEN /\ as_client' = "dropped"
                  /\ UNCHANGED <<as_queue, as_last_status>>
             ELSE /\ as_client' = IF r.ok THEN "serving" ELSE "dropped"
                  /\ as_queue' = r.queue
                  /\ as_last_status' = r.last_status
  /\ UNCHANGED <<as_sent, besideAudioServer>>

(* _receive_loop: recv() returns no data once the client has closed *)
AudioClientCloses ==
  /\ as_client = "serving"
  /\ as_wire = <<>>
  /\ as_client' = "none"
  /\ UNCHANGED <<as_wire, as_sent, as_queue, as_last_status, besideAudioServer>>

AudioServerNext == AudioAccept \/ ReceiveFrames \/ AudioClientCloses

(***************************************************************************)
(* Part XI: the Orchestrator's AudioProcessor (orchestrator/src/           *)
(* audio_processor.py).  A chunk is the sequence of its samples,           *)
(* interleaved by channel, each an integer of the announced dtype;         *)
(* dtypes are int16 and int32, channel counts 1 and 2.                     *)
(***************************************************************************)
MaxChunkFrames == 2
MaxTurnChunks == 2

INT16_MIN == -32768
INT16_MAX == 32767
TWO_16 == 65536

Format(rate, channels, dtype) == [rate |-> rate, channels |-> channels, dtype |-> dtype]

\* np.dtype(...).itemsize
ItemSize(dtype) == IF dtype = "int16" THEN 2 ELSE 4

\* rate_state = None
NoRateState == [d |-> 0, samps |-> <<>>]

AudioProcessorInit ==
  /\ target_rate = 48000
  /\ target_channels = 2
  /\ target_dtype = "int32"
  /\ rate_state = NoRateState
  /\ source_format = Format(48000, 2, "int32")
  /\ chunks_left = <<>>
  /\ chunk_in = <<>>
  /\ chunk_out = <<>>
  /\ n_processed = 0

\* the value of the low 16 bits of v read as a signed 16-bit integer:
\* ndarray.astype(np.int16) of an integer
AsInt16(v) == LET u == v % TWO_16 IN IF u > INT16_MAX THEN u - TWO_16 ELSE u

\* numpy `<< 16` on an int32: the low 16 bits become the high 16 bits
ShiftLeft16(v) == AsInt16(v) * TWO_16

\* numpy `>> 16` on an int32: the arithmetic shift
ShiftRight16(v) == v \div TWO_16

\* ndarray.clip(-32768, 32767)
Clip(v) == IF v < INT16_MIN THEN INT16_MIN ELSE IF v > INT16_MAX THEN INT16_MAX ELSE v

\* line 67: final_audio.astype(np.int32) << 16
WidenInt16(x) == ShiftLeft16(x)

(* a variant of line 70 without the shift *)
NarrowInt32Unshifted(x) == AsInt16(Clip(x))

\* line 70: (final_audio.astype(np.int32) >> 16).clip(-32768, 32767).astype(np.int16)
NarrowInt32(x) == AsInt16(Clip(ShiftRight16(x)))

\* lines 62-72: the final dtype conversion of one sample
ConvertSample(src_dtype, dst_dtype, x) ==
  IF src_dtype = dst_dtype THEN x
  ELSE IF ItemSize(src_dtype) = 2 /\ ItemSize(dst_dtype) = 4 THEN WidenInt16(x)
  ELSE NarrowInt32(x)

(* a variant of line 38 that repeats the whole chunk instead of each sample *)
MonoToStereoTiled(audio) == audio \o audio

\* line 38: np.repeat(audio, 2, axis=1) on an (n, 1) array, flattened
MonoToStereo(audio) == [i \in 1..(2 * Len(audio)) |-> audio[(i + 1) \div 2]]

\* integer division that rounds toward zero: a C cast of a double to int
TruncDiv(a, b) == IF a >= 0 THEN a \div b ELSE -((-a) \div b)

\* line 40: audio.mean(axis=1) on an (n, 2) array, then astype(src_dtype)
StereoToMono(audio) ==
  [i \in 1..(Len(audio) \div 2) |-> TruncDiv(audio[2 * i - 1] + audio[2 * i], 2)]

\* lines 36-43: the channel conversion
ConvertChannels(audio, source_channels, channels) ==
  IF source_channels = channels THEN audio
  ELSE IF source_channels = 1 THEN MonoToStereo(audio)
  ELSE StereoToMono(audio)

RECURSIVE GCD(_, _)
GCD(a, b) == IF b = 0 THEN a ELSE GCD(b, a % b)

\* audioop: a sample of the given width scaled to 32 bits, and back
Scale32(width, x) == IF width = 2 THEN x * TWO_16 ELSE x
Unscale32(width, v) == IF width = 2 THEN v \div TWO_16 ELSE v

(* audioop.ratecv(fragment, width, nchannels, inrate, outrate, state): the
   loop over the input frames; d is the phase, samps the previous and the
   current input sample of every channel *)
RECURSIVE RateCvLoop(_, _, _, _, _, _, _, _)
RateCvLoop(fragment, width, nchannels, inrate, outrate, d, samps, out) ==
  IF d < 0
  THEN IF Len(fragment) < nchannels
       THEN [out |-> out, state |-> [d |-> d, samps |-> samps]]
       ELSE RateCvLoop(SubSeq(fragment, nchannels + 1, Len(fragment)), width, nchannels,
                       inrate, outrate, d + outrate,
                       [c \in 1..nchannels |->
                          [prev |-> samps[c].cur, cur |-> Scale32(width, fragment[c])]],
                       out)
  ELSE RateCvLoop(fragment, width, nchannels, inrate, outrate, d - inrate, samps,
                  out \o [c \in 1..nchannels |->
                            Unscale32(width,
                              TruncDiv(samps[c].prev * d + samps[c].cur * (outrate - d),
                                       outrate))])

ratecv(fragment, width, nchannels, inrate, outrate, st) ==
  LET g == GCD(inrate, outrate)
      start == IF st = NoRateState
               THEN [d |-> -(outrate \div g),
                     samps |-> [c \in 1..nchannels |-> [prev |-> 0, cur |-> 0]]]
               ELSE st
  IN RateCvLoop(fragment, width, nchannels, inrate \div g, outrate \div g,
                start.d, start.samps, <<>>)

(* AudioProcessor.process_chunk: the samples it returns and the rate_state
   it leaves *)
process_chunk(pcm, source_rate, source_channels, source_dtype) ==
  IF pcm = <<>> THEN [out |-> <<>>, state |-> rate_state]
  ELSE LET audio == ConvertChannels(pcm, source_channels, target_channels)
           resampled == IF source_rate # target_rate
                        THEN ratecv(audio, ItemSize(source_dtype), target_channels,
                                    source_rate, target_rate, rate_state)
                        ELSE [out |-> audio, state |-> rate_state]
       IN [out |-> [i \in 1..Len(resampled.out) |->
                      ConvertSample(source_dtype, target_dtype, resampled.out[i])],
           state |-> resampled.state]

(* Orchestrator._on_audio_chunk: the engine hands over its next chunk *)
OnAudioChunk ==
  /\ chunks_left # <<>>
  /\ LET r == process_chunk(Head(chunks_left), source_format.rate,
                            source_format.channels, source_format.dtype)
     IN /\ chunk_out' = r.out
        /\ rate_state' = r.state
  /\ chunk_in' = Head(chunks_left)
  /\ chunks_left' = Tail(chunks_left)
  /\ n_processed' = n_processed + 1
  /\ UNCHANGED <<target_rate, target_channels, target_dtype, source_format, besideProcessor>>

(***************************************************************************)
(* Part XII: the text connection as the Orchestrator reads it              *)
(* (orchestrator/src/sr_client.py, SRClient._read_text_loop, with the      *)
(* callback Orchestrator._handle_sr_text)                                  *)
(***************************************************************************)
MaxLines == 4

TextReaderInit ==
  /\ tr_lines = <<>>
  /\ tr_read = 0
  /\ tr_in_flight = {}
  /\ tr_handled = <<>>
  /\ tr_done = <<>>

(* Speech-Rec's _emit_text writes a line; any other line may arrive as well *)
LineArrives ==
  /\ Len(tr_lines) < MaxLines
  /\ \E final \in BOOLEAN : tr_lines' = Append(tr_lines, final)
  /\ UNCHANGED <<tr_read, tr_in_flight, tr_handled, tr_done, besideTextReader>>

(* a variant in which every line is handed to a thread of its own *)
CallbackReturnedAlways == TRUE

(* _read_text_loop, line 85: self.on_text_callback(line) is an ordinary call
   in the one thread that reads the connection, so the loop takes the next
   line only when the call for the previous one has returned *)
CallbackReturned == tr_in_flight = {}

(* _read_text_loop: the next line is split off the buffer and passed to
   _handle_sr_text, which starts a turn for a final text *)
ReadLine ==
  /\ CallbackReturned
  /\ tr_read < Len(tr_lines)
  /\ tr_read' = tr_read + 1
  /\ IF tr_lines[tr_read + 1]
     THEN /\ tr_in_flight' = tr_in_flight \cup {tr_read + 1}
          /\ tr_handled' = Append(tr_handled, tr_read + 1)
     ELSE UNCHANGED <<tr_in_flight, tr_handled>>
  /\ UNCHANGED <<tr_lines, tr_done, besideTextReader>>

(* _process_text returns: the turn is over *)
TurnReturns ==
  /\ \E k \in tr_in_flight :
       /\ tr_in_flight' = tr_in_flight \ {k}
       /\ tr_done' = Append(tr_done, k)
  /\ UNCHANGED <<tr_lines, tr_read, tr_handled, besideTextReader>>

TextReaderNext == LineArrives \/ ReadLine \/ TurnReturns

(***************************************************************************)
(* Specifications                                                          *)
(***************************************************************************)
(* Speech-Rec alone: the Orchestrator stays as constructed *)
SRAlone == SRInit /\ OInit /\ logging_enabled = FALSE /\ VoiceInit /\ StreamerInit /\ FramerInit /\ ReceiverInit /\ PortsInit /\ OutputInit /\ BufferInit /\ TextReaderInit /\ AudioProcessorInit /\ AudioServerInit

SpecSR == SRAlone /\ [][SRNext]_vars

(* the Voice-Input main loop alone *)
VoiceAlone == VoiceInit /\ SRInit /\ OInit /\ logging_enabled = FALSE /\ StreamerInit /\ FramerInit /\ ReceiverInit /\ PortsInit /\ OutputInit /\ BufferInit /\ TextReaderInit /\ AudioProcessorInit /\ AudioServerInit

SpecVoice == VoiceAlone /\ [][VoiceNext]_vars

(* the AudioStreamer alone, its threads scheduled fairly, Speech-Rec
   accepting connections after at most MaxRefused refusals *)
StreamerAlone == StreamerInit /\ FramerInit /\ ReceiverInit /\ PortsInit /\ OutputInit /\ BufferInit /\ TextReaderInit /\ AudioProcessorInit /\ AudioServerInit /\ SRInit /\ OInit /\ logging_enabled = FALSE /\ VoiceInit

SpecStreamer ==
  StreamerAlone /\ [][StreamerNext]_vars /\ WF_vars(ConnectLoop) /\ WF_vars(SendPacket)

(* the framer alone, fed the encodings of packets in chunks of any size *)
FramerRoundTrip ==
  RoundTripInit /\ SRInit /\ OInit /\ logging_enabled = FALSE /\ VoiceInit /\ StreamerInit /\ ReceiverInit /\ PortsInit /\ OutputInit /\ BufferInit /\ TextReaderInit /\ AudioProcessorInit /\ AudioServerInit

SpecFramer == FramerRoundTrip /\ [][FramerDecode]_vars

(* the framer alone, fed bytes of a peer that does not follow the framing *)
FramerHostile ==
  HostileInit /\ SRInit /\ OInit /\ logging_enabled = FALSE /\ VoiceInit /\ StreamerInit /\ ReceiverInit /\ PortsInit /\ OutputInit /\ BufferInit /\ TextReaderInit /\ AudioProcessorInit /\ AudioServerInit

SpecFramerHostile == FramerHostile /\ [][FramerDecode]_vars

(* the NetworkReceiver alone *)
ReceiverAlone ==
  ReceiverInit /\ SRInit /\ OInit /\ logging_enabled = FALSE /\ VoiceInit /\ StreamerInit
    /\ FramerInit /\ PortsInit /\ OutputInit /\ BufferInit /\ TextReaderInit /\ AudioProcessorInit /\ AudioServerInit

SpecReceiver == ReceiverAlone /\ [][ReceiverNext]_vars

(* the audio port of Speech-Rec under a client that sends faster than the
   main loop takes packets out *)
MaxFlood == 101

(* AudioStreamServer._receive_loop: self.packet_queue.put(packet) *)
FloodAudio ==
  /\ n_packets < MaxFlood
  /\ ReceivePacket(AudioPacket(1, n_packets + 1))
  /\ UNCHANGED <<wire, early_stop>>

FloodNext == FloodAudio \/ IngestPacket \/ IngestDone \/ MainTranscribe

SpecFlood == SRAlone /\ [][FloodNext]_vars

(* the accept loops of Speech-Rec and their clients alone *)
PortsAlone ==
  PortsInit /\ SRInit /\ OInit /\ logging_enabled = FALSE /\ VoiceInit /\ StreamerInit
    /\ FramerInit /\ ReceiverInit /\ OutputInit /\ BufferInit /\ TextReaderInit /\ AudioProcessorInit /\ AudioServerInit

SpecPorts == PortsAlone /\ [][PortsNext]_vars

(* two RESETs in a row, of the button and of the control command, in a
   system that is otherwise at rest: no text line is being handled, no
   packet arrives; a worker started earlier may still be running *)
ResetTwiceInit ==
  /\ VoiceInit /\ StreamerInit /\ FramerInit /\ ReceiverInit /\ PortsInit /\ OutputInit /\ BufferInit /\ TextReaderInit /\ AudioProcessorInit /\ AudioServerInit
  /\ state \in {"IDLE", "LISTENING"}
  /\ history \in {<<>>, <<UserTurn(1)>>, <<UserTurn(1), AssistantTurn(1)>>}
  /\ last_tts_end_time = 0
  /\ now = 0
  /\ session_log = <<>>
  /\ logging_enabled \in BOOLEAN
  /\ bus = <<>>
  /\ control_socket \in BOOLEAN
  /\ sr_commands = <<>>
  /\ text_socket = TRUE
  /\ running = TRUE
  /\ rd_pc = "idle"
  /\ rd_text = 0
  /\ rd_line = NoLine
  /\ rd_chunks = 0
  /\ rd_response = ""
  /\ engine_arg = <<>>
  /\ bt_pc = "idle"
  /\ cb_pc = "idle"
  /\ n_texts = 0
  /\ n_resets = 0
  /\ n_ticks = 0
  /\ n_conns = 0
  /\ turn_base = <<>>
  /\ turn_log = <<>>
  /\ turn_late = FALSE
  /\ turn_reset = FALSE
  /\ is_listening \in BOOLEAN
  /\ last_vad_status = "SILENCE"
  /\ pending_transcription \in BOOLEAN
  /\ audio_buffer \in {<<>>, <<2>>}
  /\ packet_queue \in {<<>>, <<AudioPacket(1, 3)>>}
  /\ transcription_thread \in {0, 1}
  /\ transcription_cancel = 0
  /\ events = [e \in EventIds |-> FALSE]
  /\ workers = [t \in WorkerIds |->
                  IF t = 1 /\ transcription_thread = 1
                  THEN [pc |-> "begin", audio |-> <<1>>, ev |-> 0, k |-> 0]
                  ELSE IdleWorker]
  /\ sr_text_socket = TRUE
  /\ text_out = <<>>
  /\ main_pc = "ingest"
  /\ cmd_pc = "idle"
  /\ cancelled = {}
  /\ n_packets = 0
  /\ n_cmds = 0
  /\ since_reset = FALSE
  /\ wire = <<>>
  /\ early_stop = FALSE

ResetTwiceNext ==
  \/ ButtonResetUpTo(MaxResets + 1)
  \/ ButtonLog
  \/ ButtonClear
  \/ ButtonPublishStop
  \/ ButtonSendReset
  \/ ButtonSetListening
  \/ CmdReset
  \/ CancelJoinReturn
  \/ \E t \in WorkerIds : WorkerBegin(t)
  \/ \E t \in WorkerIds : WorkerSegment(t)
  \/ \E t \in WorkerIds : WorkerExhausted(t)
  \/ \E t \in WorkerIds : WorkerRaise(t)
  \/ \E t \in WorkerIds : WorkerCheck(t)
  \/ \E t \in WorkerIds : WorkerEmit(t)

SpecResetTwice == ResetTwiceInit /\ [][ResetTwiceNext]_vars

(* Voice-Output alone *)
OutputAlone ==
  OutputInit /\ BufferInit /\ TextReaderInit /\ AudioProcessorInit /\ AudioServerInit /\ SRInit /\ OInit /\ logging_enabled = FALSE /\ VoiceInit /\ StreamerInit
    /\ FramerInit /\ ReceiverInit /\ PortsInit

SpecOutput == OutputAlone /\ [][OutputNext]_vars

(* the utterance buffer alone *)
BufferAlone ==
  BufferInit /\ TextReaderInit /\ AudioProcessorInit /\ AudioServerInit /\ SRInit /\ OInit /\ logging_enabled = FALSE /\ VoiceInit /\ StreamerInit
    /\ FramerInit /\ ReceiverInit /\ PortsInit /\ OutputInit

SpecBuffer == BufferAlone /\ [][BufferNext]_vars

(* the audio connection of Speech-Rec alone *)
AudioServerAlone ==
  AudioClientInit /\ BufferInit /\ TextReaderInit /\ AudioProcessorInit /\ SRInit /\ OInit /\ logging_enabled = FALSE /\ VoiceInit
    /\ StreamerInit /\ FramerInit /\ ReceiverInit /\ PortsInit /\ OutputInit

SpecAudioServer == AudioServerAlone /\ [][AudioServerNext]_vars

(* width conversion alone: source and target agree in rate and channels,
   the engine hands over one chunk of one frame *)
Int32Samples ==
  {k * TWO_16 + r : k \in {INT16_MIN, INT16_MIN + 1, -2, -1, 0, 1, INT16_MAX - 1, INT16_MAX},
                    r \in {0, 1, INT16_MAX, INT16_MAX + 1, TWO_16 - 1}}

WidthInit ==
  /\ BufferInit /\ TextReaderInit /\ AudioServerInit /\ SRInit /\ OInit /\ logging_enabled = FALSE /\ VoiceInit
  /\ StreamerInit /\ FramerInit /\ ReceiverInit /\ PortsInit /\ OutputInit
  /\ target_rate = 16000
  /\ target_channels \in {1, 2}
  /\ rate_state = NoRateState
  /\ \E src \in {"int16", "int32"} :
       /\ source_format = Format(target_rate, target_channels, src)
       /\ target_dtype = IF src = "int16" THEN "int32" ELSE "int16"
       /\ \E x \in IF src = "int16" THEN INT16_MIN..INT16_MAX ELSE Int32Samples :
            chunks_left = <<[c \in 1..target_channels |-> x]>>
  /\ chunk_in = <<>>
  /\ chunk_out = <<>>
  /\ n_processed = 0

SpecWidth == WidthInit /\ [][OnAudioChunk]_vars

(* mono chunks of one turn for a stereo target, with and without rate and
   width conversion *)
RemuxSamples == {-3, 0, 5}

RemuxChunks == UNION {[1..n -> RemuxSamples] : n \in 1..MaxChunkFrames}

RemuxInit ==
  /\ BufferInit /\ TextReaderInit /\ AudioServerInit /\ SRInit /\ OInit /\ logging_enabled = FALSE /\ VoiceInit
  /\ StreamerInit /\ FramerInit /\ ReceiverInit /\ PortsInit /\ OutputInit
  /\ target_rate = 48000
  /\ target_channels = 2
  /\ target_dtype \in {"int16", "int32"}
  /\ rate_state = NoRateState
  /\ source_format \in {Format(r, 1, t) : r \in {16000, 22050, 48000},
                                           t \in {"int16", "int32"}}
  /\ chunks_left \in UNION {[1..n -> RemuxChunks] : n \in 1..MaxTurnChunks}
  /\ chunk_in = <<>>
  /\ chunk_out = <<>>
  /\ n_processed = 0

SpecRemux == RemuxInit /\ [][OnAudioChunk]_vars

(* the text connection alone *)
TextReaderAlone ==
  TextReaderInit /\ BufferInit /\ AudioProcessorInit /\ AudioServerInit /\ SRInit /\ OInit
    /\ logging_enabled = FALSE /\ VoiceInit /\ StreamerInit /\ FramerInit /\ ReceiverInit
    /\ PortsInit /\ OutputInit

SpecTextReader == TextReaderAlone /\ [][TextReaderNext]_vars

(* the Orchestrator alone: Speech-Rec stays as constructed *)
OrchAlone == OInit /\ SRInit /\ VoiceInit /\ StreamerInit /\ FramerInit /\ ReceiverInit /\ PortsInit /\ OutputInit /\ BufferInit /\ TextReaderInit /\ AudioProcessorInit /\ AudioServerInit

SpecOrch == OrchAlone /\ [][ONext]_vars

(***************************************************************************)
(* Turns of a connected Orchestrator: both SR connections are up and START *)
(* has been sent; lines arrive, the clock advances, buttons are pressed,   *)
(* and the reader thread is scheduled fairly, the engine call returning.   *)
(***************************************************************************)
ReaderTurn ==
  \/ ReaderTimeoutLog
  \/ ReaderTimeoutClear
  \/ ReaderSetProcessing
  \/ ReaderAddUser
  \/ ReaderSetSpeaking
  \/ ReaderCallEngine
  \/ EngineAudioChunk
  \/ EngineReturns
  \/ ReaderAddAssistant
  \/ ReaderPublishSpeak
  \/ ReaderFinish

ButtonThread ==
  \/ ButtonOther
  \/ ButtonReset
  \/ ButtonLog
  \/ ButtonClear
  \/ ButtonPublishStop
  \/ ButtonSendReset
  \/ ButtonSetListening

(* the state OnSrConnectListening leaves, the text connection being up too *)
TurnsInit ==
  /\ state = "LISTENING"
  /\ history = <<>>
  /\ last_tts_end_time = 0
  /\ now = 0
  /\ session_log = <<>>
  /\ logging_enabled = FALSE
  /\ bus = <<>>
  /\ control_socket = TRUE
  /\ sr_commands = <<"START">>
  /\ text_socket = TRUE
  /\ running = TRUE
  /\ rd_pc = "idle"
  /\ rd_text = 0
  /\ rd_line = NoLine
  /\ rd_chunks = 0
  /\ rd_response = ""
  /\ engine_arg = <<>>
  /\ bt_pc = "idle"
  /\ cb_pc = "idle"
  /\ n_texts = 0
  /\ n_resets = 0
  /\ n_ticks = 0
  /\ n_conns = 1
  /\ turn_base = <<>>
  /\ turn_log = <<>>
  /\ turn_late = FALSE
  /\ turn_reset = FALSE
  /\ SRInit /\ VoiceInit /\ StreamerInit /\ FramerInit /\ ReceiverInit /\ PortsInit /\ OutputInit /\ BufferInit /\ TextReaderInit /\ AudioProcessorInit /\ AudioServerInit

TurnsNext == HandleOtherLine \/ HandleSrText \/ ReaderTurn \/ ButtonThread \/ Tick

SpecTurns == TurnsInit /\ [][TurnsNext]_vars /\ WF_vars(ReaderTurn)

(***************************************************************************)
(* The clean-utterance scenario (speech_rec/test_client.py): Speech-Rec is *)
(* listening with a text client connected; the audio client sends          *)
(* SPEECH_DETECTED, audio packets, SPEECH_HANGOVER, SILENCE; the ASR       *)
(* returns text; a STOP may follow once the last packet has been sent.     *)
(***************************************************************************)
UtteranceWire(n) ==
  <<StatusPacket("SPEECH_DETECTED")>> \o [i \in 1..n |-> AudioPacket(1, i)]
    \o <<StatusPacket("SPEECH_HANGOVER"), StatusPacket("SILENCE")>>

UtteranceInit ==
  /\ is_listening = TRUE
  /\ last_vad_status = "SILENCE"
  /\ pending_transcription = FALSE
  /\ audio_buffer = <<>>
  /\ packet_queue = <<>>
  /\ transcription_thread = 0
  /\ transcription_cancel = 0
  /\ events = [e \in EventIds |-> FALSE]
  /\ workers = [t \in WorkerIds |-> IdleWorker]
  /\ sr_text_socket = TRUE
  /\ text_out = <<>>
  /\ main_pc \in {"ingest", "transcribe"}
  /\ cmd_pc = "idle"
  /\ cancelled = {}
  /\ n_packets = 0
  /\ n_cmds = 0
  /\ since_reset = FALSE
  /\ \E n \in 1..MaxUtteranceAudio : wire = UtteranceWire(n)
  /\ early_stop = FALSE

(* test_client.send_dummy_audio: the next packet of the script is sent *)
WireSend ==
  /\ wire # <<>>
  /\ ReceivePacket(Head(wire))
  /\ wire' = Tail(wire)
  /\ UNCHANGED early_stop

(* test_client.control_session: STOP after the audio has been sent *)
FollowingStop ==
  /\ wire = <<>>
  /\ n_cmds = 0
  /\ ProcessStop
  /\ early_stop' = (packet_queue # <<>>)

UtteranceWorker ==
  \E t \in WorkerIds :
    \/ WorkerBegin(t)
    \/ WorkerSegment(t)
    \/ (workers[t].k > 0 /\ WorkerExhausted(t))
    \/ WorkerCheck(t)
    \/ EmitText(t, TRUE)

UtteranceMain == IngestPacket \/ IngestDone \/ MainTranscribe

UtteranceStart ==
  UtteranceInit /\ OInit /\ logging_enabled = FALSE /\ VoiceInit /\ StreamerInit /\ FramerInit /\ ReceiverInit /\ PortsInit /\ OutputInit /\ BufferInit /\ TextReaderInit /\ AudioProcessorInit /\ AudioServerInit

UtteranceNext == WireSend \/ UtteranceMain \/ UtteranceWorker \/ FollowingStop

SpecUtterance ==
  /\ UtteranceStart
  /\ [][UtteranceNext]_vars
  /\ WF_vars(WireSend)
  /\ WF_vars(UtteranceMain)
  /\ WF_vars(UtteranceWorker)

(***************************************************************************)
(* A STOP at any time: Speech-Rec is listening, a client sends one whole   *)
(* utterance and the beginning of a second one, and STOP is processed at   *)
(* any point of it.                                                        *)
(***************************************************************************)
StopWire ==
  UtteranceWire(1) \o <<StatusPacket("SPEECH_DETECTED"), AudioPacket(1, 2)>>

StopInit ==
  /\ OInit /\ logging_enabled = FALSE
  /\ VoiceInit /\ StreamerInit /\ FramerInit /\ ReceiverInit /\ PortsInit /\ OutputInit /\ BufferInit /\ TextReaderInit /\ AudioProcessorInit /\ AudioServerInit
  /\ is_listening = TRUE
  /\ last_vad_status = "SILENCE"
  /\ pending_transcription = FALSE
  /\ audio_buffer = <<>>
  /\ packet_queue = <<>>
  /\ transcription_thread = 0
  /\ transcription_cancel = 0
  /\ events = [e \in EventIds |-> FALSE]
  /\ workers = [t \in WorkerIds |-> IdleWorker]
  /\ sr_text_socket = TRUE
  /\ text_out = <<>>
  /\ main_pc = "ingest"
  /\ cmd_pc = "idle"
  /\ cancelled = {}
  /\ n_packets = 0
  /\ n_cmds = 0
  /\ since_reset = FALSE
  /\ wire = StopWire
  /\ early_stop = FALSE

(* the control client sends STOP, once *)
StopAnytime ==
  /\ n_cmds = 0
  /\ ProcessStop
  /\ UNCHANGED early_stop

StopNext == WireSend \/ UtteranceMain \/ UtteranceWorker \/ StopAnytime

SpecStop ==
  /\ StopInit
  /\ [][StopNext]_vars
  /\ WF_vars(UtteranceMain)
  /\ WF_vars(UtteranceWorker)

(***************************************************************************)
(* A failing ASR call: Speech-Rec is listening with a text client          *)
(* connected; the client sends one utterance, the ASR call of its worker   *)
(* raises, and the client sends a second utterance once the first has been *)
(* handed to its worker.                                                   *)
(***************************************************************************)
SecondUtterance ==
  <<StatusPacket("SPEECH_DETECTED"), AudioPacket(1, 2),
    StatusPacket("SPEECH_HANGOVER"), StatusPacket("SILENCE")>>

RaiseInit ==
  /\ OInit /\ logging_enabled = FALSE
  /\ VoiceInit /\ StreamerInit /\ FramerInit /\ ReceiverInit /\ PortsInit /\ OutputInit /\ BufferInit /\ TextReaderInit /\ AudioProcessorInit /\ AudioServerInit
  /\ is_listening = TRUE
  /\ last_vad_status = "SILENCE"
  /\ pending_transcription = FALSE
  /\ audio_buffer = <<>>
  /\ packet_queue = <<>>
  /\ transcription_thread = 0
  /\ transcription_cancel = 0
  /\ events = [e \in EventIds |-> FALSE]
  /\ workers = [t \in WorkerIds |-> IdleWorker]
  /\ sr_text_socket = TRUE
  /\ text_out = <<>>
  /\ main_pc \in {"ingest", "transcribe"}
  /\ cmd_pc = "idle"
  /\ cancelled = {}
  /\ n_packets = 0
  /\ n_cmds = 0
  /\ since_reset = FALSE
  /\ wire = UtteranceWire(1) \o SecondUtterance
  /\ early_stop = FALSE

(* the client sends its next packet; it starts the second utterance after
   the first worker was started *)
RaiseWireSend ==
  /\ Len(wire) > Len(SecondUtterance) \/ workers[1].pc # "unborn"
  /\ WireSend

(* the first worker's ASR call raises, the later ones return text *)
RaiseWorker ==
  \E t \in WorkerIds :
    \/ WorkerBegin(t)
    \/ WorkerSegment(t)
    \/ (t = 1 /\ WorkerRaise(t))
    \/ (t # 1 /\ workers[t].k > 0 /\ WorkerExhausted(t))
    \/ WorkerCheck(t)
    \/ EmitText(t, TRUE)

RaiseNext == RaiseWireSend \/ UtteranceMain \/ RaiseWorker

SpecRaise ==
  /\ RaiseInit
  /\ [][RaiseNext]_vars
  /\ WF_vars(RaiseWireSend)
  /\ WF_vars(UtteranceMain)
  /\ WF_vars(RaiseWorker)

(***************************************************************************)
(* The Orchestrator and Speech-Rec joined by the control connection:       *)
(* Speech-Rec's control thread processes the commands the Orchestrator     *)
(* has sent, in the order they were sent.                                  *)
(***************************************************************************)
(* _handle_control_client: recv() returns the next command sent *)
NextCommand(cmd) ==
  /\ n_cmds < Len(sr_commands)
  /\ sr_commands[n_cmds + 1] = cmd

LinkStart == NextCommand("START") /\ CmdStart

LinkReset == NextCommand("RESET") /\ CmdReset

LinkNext ==
  \/ ControlConnect
  \/ OnSrConnectSend
  \/ OnSrConnectListening
  \/ ButtonReset
  \/ ButtonLog
  \/ ButtonClear
  \/ ButtonPublishStop
  \/ ButtonSendReset
  \/ ButtonSetListening
  \/ LinkStart
  \/ StartResetBuffer
  \/ StartClearQueue
  \/ LinkReset
  \/ CancelJoinReturn
  \/ ReceiveStatus
  \/ ReceiveAudio
  \/ UtteranceMain
  \/ UtteranceWorker

SpecLink == OrchAlone /\ [][LinkNext]_vars

(***************************************************************************)
(* Claims about Speech-Rec                                                 *)
(***************************************************************************)

\* C1: Speech-Rec never has two transcription worker threads alive at the
\* same time, also after a RESET whose join timed out and abandoned a worker.
C1_AtMostOneWorkerAlive == Cardinality(AliveWorkers) <= 1

\* C2: a worker that was running when RESET set the cancel flag never emits
\* a text line, even when it is abandoned and a new transcription is started.
C2_CancelledWorkerNeverEmits ==
  \A i \in 1..Len(text_out) : text_out[i].by \notin cancelled

\* the one line of the utterance: final, transcribed from all its audio
OneFinalLine ==
  /\ wire = <<>>
  /\ Len(text_out) = 1
  /\ text_out[1].is_final
  /\ text_out[1].text = [i \in 1..(n_packets - 3) |-> i]

\* C3 as stated: in the clean-utterance scenario exactly one text line is
\* eventually emitted, final, transcribed from all the audio sent before
\* SILENCE, and a following STOP does not produce a second line.
C3_Original ==
  /\ [](Len(text_out) <= 1)
  /\ <>[]OneFinalLine

\* C3 (amended): the same, provided the following STOP is processed after the
\* main loop has taken the utterance's packets out of the queue; a STOP that
\* overtakes queued packets still never yields a second line.
C3_UtteranceYieldsOneFinalLine ==
  /\ [](Len(text_out) <= 1)
  /\ <>[](early_stop \/ OneFinalLine)

C3_Witness ==
  /\ ~is_listening
  /\ ~early_stop
  /\ AliveWorkers = {}
  /\ ~pending_transcription
  /\ Len(text_out) = 1
  /\ Len(text_out[1].text) = MaxUtteranceAudio

(***************************************************************************)
(* Claims about the Orchestrator                                           *)
(***************************************************************************)
InBus(b, m) == \E i \in 1..Len(b) : b[i] = m

InCommands(c, cmd) == \E i \in 1..Len(c) : c[i] = cmd

\* C4: when the handler of a RESET button event returns, the FSM is in
\* LISTENING, the history is empty, the stop control message has been
\* published and RESET has been sent to Speech-Rec, whatever the state the
\* event was handled in.
C4_ResetHandler ==
  [][(bt_pc = "set" /\ bt_pc' = "idle")
       => /\ state' = "LISTENING"
          /\ history' = <<>>
          /\ InBus(bus', StopMsg)
          /\ InCommands(sr_commands', "RESET")]_vars

Alternates(h) ==
  \A i \in 1..Len(h) : h[i].role = (IF i % 2 = 1 THEN "user" ELSE "assistant")

\* C5: in every reachable state the session history alternates roles,
\* starting with user.
C5_HistoryAlternates == Alternates(history)

\* C6: for a final text that arrived with a non-empty history more than
\* SESSION_TIMEOUT after last_tts_end_time, with logging enabled and the
\* service running: when the new user turn is added, exactly one record, the
\* prior history, has been appended to the log since the text arrived, and
\* the history is then exactly that one user turn.
C6_TimeoutLogsOnceAndReplaces ==
  [][(/\ rd_pc = "adduser" /\ rd_pc' = "speaking"
      /\ turn_late /\ turn_base # <<>>
      /\ logging_enabled /\ running)
       => /\ session_log' = Append(turn_log, turn_base)
          /\ history' = <<UserTurn(rd_text)>>]_vars

\* C7 as stated: the engine call for a final text that arrived no later than
\* SESSION_TIMEOUT after last_tts_end_time gets every turn of the history at
\* the arrival plus the new user turn.
C7_Original ==
  [][(rd_pc = "call" /\ rd_pc' = "engine" /\ ~turn_late)
       => engine_arg' = Append(turn_base, UserTurn(rd_text))]_vars

\* C7 (amended): the same, provided no RESET button event cleared the session
\* while that text was being handled.
C7_TimelyTextKeepsHistory ==
  [][(rd_pc = "call" /\ rd_pc' = "engine" /\ ~turn_late /\ ~turn_reset)
       => engine_arg' = Append(turn_base, UserTurn(rd_text))]_vars

\* the engine is running on the second text of a session that went on after
\* time had passed: its request holds both user turns
C7_Witness ==
  /\ rd_pc = "engine"
  /\ ~turn_late /\ ~turn_reset
  /\ n_ticks > 0
  /\ Len(turn_base) = 2
  /\ Len(engine_arg) = 3
  /\ engine_arg[1] = UserTurn(1)
  /\ engine_arg[3] = UserTurn(2)

\* C8: with logging enabled, whenever a non-empty history is cleared the last
\* record of the session log is exactly that history.
C8_ClearedHistoryWasLogged ==
  [][(logging_enabled /\ history # <<>> /\ history' = <<>>)
       => /\ session_log # <<>>
          /\ session_log[Len(session_log)] = history]_vars

\* C9: RESET's log-and-clear pair is atomic with respect to the reader's
\* session operations: between the log and the clear neither the history nor
\* last_tts_end_time changes.
C9_ResetLogAndClearAtomic ==
  [][(bt_pc = "clear" /\ bt_pc' = "clear")
       => /\ history' = history
          /\ last_tts_end_time' = last_tts_end_time]_vars

\* C10: the FSM enters PROCESSING only from LISTENING.
C10_ProcessingOnlyFromListening ==
  [][(state' = "PROCESSING" /\ state # "PROCESSING") => state = "LISTENING"]_vars

\* C11: a line received by the reader either is a final non-empty text, or
\* (is_final = false, empty text, bad JSON) it leaves the reader idle and the
\* FSM state, the history, last_tts_end_time and the bus untouched.
C11_OtherLineChangesNothing ==
  [][(rd_pc = "idle" /\ n_texts' # n_texts)
       => IF rd_pc' = "idle"
          THEN UNCHANGED <<state, history, last_tts_end_time, bus>>
          ELSE rd_line'.json /\ rd_line'.text # "" /\ rd_line'.is_final]_vars

\* a line that started no turn has been received while LISTENING
C11_Witness ==
  /\ n_texts = 1 /\ n_resets = 0
  /\ rd_pc = "idle"
  /\ state = "LISTENING"
  /\ history = <<>>
  /\ bus = <<>>

\* C12: whenever the FSM has entered PROCESSING on a final text, the turn
\* eventually ends with the FSM in LISTENING and last_tts_end_time stamped,
\* whatever the engine returned; and when the engine returned a non-empty
\* string (the reply or a placeholder) the speak message has been published
\* by the time the turn ends.
C12_EveryTurnEndsListening ==
  /\ (rd_pc = "adduser")
       ~> (rd_pc = "idle" /\ state = "LISTENING" /\ last_tts_end_time = now)
  /\ []((rd_pc = "finish" /\ rd_response # "") => InBus(bus, SpeakMsg(rd_text)))

\* a turn whose engine call returned a placeholder is about to end: the
\* speak message is on the bus, the FSM is still SPEAKING
C12_Witness ==
  /\ rd_pc = "finish"
  /\ rd_response = "placeholder"
  /\ state = "SPEAKING"
  /\ InBus(bus, SpeakMsg(rd_text))
  /\ Len(history) > 0
  /\ history[Len(history)] = AssistantTurn(rd_text)

NumSent(c, cmd) == Cardinality({i \in 1..Len(c) : c[i] = cmd})

\* C13: when the connect callback returns, the FSM is in LISTENING and START
\* has been sent once on each control connection established so far: the
\* callback never moves the FSM to LISTENING without START having been sent.
C13_ListeningOnlyAfterStartSent ==
  [][(cb_pc = "listen" /\ cb_pc' = "idle")
       => /\ state' = "LISTENING"
          /\ NumSent(sr_commands', "START") = n_conns']_vars

(***************************************************************************)
(* Claims about Voice-Input                                                *)
(***************************************************************************)
StatusesOf(out) == SelectSeq(out, LAMBDA p : p.payload = "status")

AudioOf(out) == SelectSeq(out, LAMBDA p : p.payload = "audio")

\* C14: the status packets emitted by Voice-Input never hold the same status
\* twice in a row.
C14_NoRepeatedStatus ==
  LET st == StatusesOf(emitted) IN
    \A i \in 1..(Len(st) - 1) : st[i].status # st[i + 1].status

\* a whole cycle of statuses has been emitted, and chunks of the same class
\* followed each other
C14_Witness ==
  LET st == StatusesOf(emitted) IN
    /\ Len(st) = 3
    /\ st[1].status = "SPEECH_DETECTED"
    /\ st[2].status = "SPEECH_HANGOVER"
    /\ st[3].status = "SILENCE"
    /\ n_chunks = MaxVoiceChunks

\* C15: the audio packets emitted carry strictly increasing sequence numbers,
\* and the counter has advanced once per audio packet emitted, never for a
\* status packet.
C15_SequenceMonotonic ==
  LET au == AudioOf(emitted) IN
    /\ \A i \in 1..(Len(au) - 1) : au[i].sequence < au[i + 1].sequence
    /\ sequence = Len(au)

\* audio packets have been emitted on both sides of status packets
C15_Witness ==
  /\ Len(AudioOf(emitted)) >= 3
  /\ Len(StatusesOf(emitted)) >= 2
  /\ emitted[Len(emitted)].payload = "audio"

EmittedBy(old, new) == SubSeq(new, Len(old) + 1, Len(new))

\* C16: after a chunk classified as speech at time t, a non-speech chunk read
\* before t + HANGOVER is emitted as audio; one read at or after t + HANGOVER
\* is not, and the first of these produces a SILENCE status.
C16_HangoverTiming ==
  [][(n_chunks' # n_chunks /\ ~chunk_is_speech' /\ speech_at # NoTime)
       => LET out == EmittedBy(emitted, emitted') IN
            IF current_time' < speech_at + SILENCE_DURATION_MS
            THEN Len(AudioOf(out)) = 1
            ELSE /\ AudioOf(out) = <<>>
                 /\ past_hangover = 0
                      => out = <<MakeStatusPacket("SILENCE", current_time')>>]_vars

\* the hangover has run out: audio went out during it, SILENCE at its end,
\* and nothing for the chunk after that
C16_Witness ==
  /\ past_hangover = 2
  /\ last_status = "SILENCE"
  /\ Len(AudioOf(emitted)) >= 2
  /\ emitted[Len(emitted)].status = "SILENCE"

\* C17: a packet handed to send_packet while the socket is None is never
\* delivered, on no connection, and the drop counter counts exactly these
\* packets.
C17_UnconnectedPacketsDropped ==
  /\ st_drop_packets = Cardinality(unconnected)
  /\ \A i \in 1..Len(delivered) : delivered[i].packet \notin unconnected

\* packets were dropped before the first connection and others delivered
\* on it afterwards
C17_Witness ==
  /\ st_drop_packets = 2
  /\ unconnected = {1, 2}
  /\ Len(delivered) = 2
  /\ delivered[1].conn = 1

InSendSection == send_pc \in {"locked", "unlock"}

InConnectSection == conn_pc \in {"set", "unlock"}

\* C18: a failed send leaves the socket None; a socket that is None is
\* eventually replaced by the connect loop; on a socket the packet handed
\* over is delivered unless the send fails; and the two threads are never
\* both inside their sections that write to or replace the socket.
C18_ReconnectAndDeliver ==
  /\ [](~(InSendSection /\ InConnectSection))
  /\ [][n_broken' # n_broken => st_socket' = 0]_vars
  /\ [][(send_pc = "locked" /\ send_pc' = "unlock" /\ st_socket # 0)
          => \/ st_socket' = 0
             \/ delivered' = Append(delivered, [conn |-> st_socket,
                                                packet |-> send_packet_arg])]_vars
  /\ (st_socket = 0) ~> (st_socket # 0)

\* after a failed send a packet has been delivered on a later connection
C18_Witness ==
  /\ n_broken >= 1
  /\ st_socket >= 2
  /\ delivered # <<>>
  /\ delivered[Len(delivered)].conn = st_socket

\* C19: however the encodings of P1..Pn are split into chunks, the packets
\* decode has returned are P1..Pk in order, the bytes consumed are exactly
\* their 4 + length bytes each, the buffer holds a proper prefix of the
\* encoding of P(k+1) and nothing else, and once the whole stream has been
\* fed the packets returned are P1..Pn.
C19_FramingRoundTrip ==
  LET k == Len(fr_decoded)
  IN /\ k <= Len(fr_sent)
     /\ fr_decoded = SubSeq(fr_sent, 1, k)
     /\ EncodeAll(fr_decoded) \o fr_buffer \o fr_wire = EncodeAll(fr_sent)
     /\ IF k < Len(fr_sent)
        THEN /\ Len(fr_buffer) < Len(encode_packet(fr_sent[k + 1]))
             /\ fr_buffer = SubSeq(encode_packet(fr_sent[k + 1]), 1, Len(fr_buffer))
        ELSE fr_buffer = <<>>
     /\ fr_wire = <<>> => fr_decoded = fr_sent

\* two packets with different payloads came out of a stream that was fed
\* in more chunks than it has packets
C19_Witness ==
  /\ fr_wire = <<>>
  /\ fr_calls > Len(fr_sent)
  /\ Len(fr_decoded) = 2
  /\ fr_decoded[1].payload = <<1, 0>>
  /\ fr_decoded[2].payload = <<0>>

\* C20: the framer buffer never holds more than the prefix and a payload of
\* the ceiling, whatever length a frame declares.
C20_BufferBoundedByCeiling == Len(fr_buffer) <= LENGTH_PREFIX_BYTES + FrameCeiling

InQueue(q, c) == \E i \in 1..Len(q) : q[i] = c

\* C21: the chunk queue never holds more than 100 chunks, and every chunk is
\* in the queue when its insertion attempt ends, whatever the consumer does
\* meanwhile.
C21_EveryChunkInserted ==
  [][/\ Len(audio_queue') <= AUDIO_QUEUE_MAXSIZE
     /\ (nr_pc # "recv" /\ nr_pc' = "recv") => InQueue(audio_queue', nr_chunk)]_vars

\* C22: the receive queue of the audio server never holds more than 100
\* packets.
C22_ReceiveQueueBounded == Len(packet_queue) <= 100

\* C23: on each port at most one client is served at any time, and once a
\* newer client has been accepted no bytes of an older one are consumed and
\* no line is sent to an older one.
C23_OneClientPerPort ==
  /\ [](\A p \in Ports : Cardinality(pt_accepted[p]) <= 1)
  /\ [][\A p \in Ports :
          pt_served'[p] # pt_served[p]
            => \A c \in pt_taken[p] : c <= pt_served'[p][Len(pt_served'[p])]]_vars

C25_StartLeavesCleanState ==
  [][(cmd_pc = "start_clear" /\ cmd_pc' = "idle")
       => /\ is_listening'
          /\ audio_buffer' = <<>>
          /\ packet_queue' = <<>>
          /\ last_vad_status' = "SILENCE"
          /\ ~pending_transcription']_vars

\* C26: STOP sets is_listening = false and pending_transcription = true; an
\* audio packet taken from the queue after STOP is not added to the buffer;
\* the audio in the buffer after STOP is eventually drained, and it is
\* drained by a step that starts one worker with exactly that audio while
\* no worker is alive.
C26_StopDrainsIntoOneWorker ==
  /\ [][n_cmds' # n_cmds => (~is_listening' /\ pending_transcription')]_vars
  /\ [][~is_listening => (audio_buffer' = audio_buffer \/ audio_buffer' = <<>>)]_vars
  /\ [][(~is_listening /\ audio_buffer # <<>> /\ audio_buffer' = <<>>)
          => /\ AliveWorkers = {}
             /\ \E t \in WorkerIds :
                  /\ AliveWorkers' = {t}
                  /\ workers[t].pc = "unborn"
                  /\ workers'[t].audio = audio_buffer]_vars
  /\ (~is_listening /\ audio_buffer # <<>>) ~> (~is_listening /\ audio_buffer = <<>>)

\* after STOP the second worker runs with the audio of the second utterance,
\* the first worker having ended
C26_Witness ==
  /\ ~is_listening
  /\ workers[1].pc = "done"
  /\ workers[2].pc = "begin"
  /\ workers[2].audio = <<2>>
  /\ n_cmds = 1

\* C27: from the moment a RESET command has been processed until the next
\* START, Speech-Rec is not listening, its utterance buffer and its packet
\* queue are empty, no worker is started and no text line is sent.
C27_ResetSilencesUntilStart ==
  /\ []((since_reset /\ cmd_pc = "idle")
          => (~is_listening /\ audio_buffer = <<>> /\ packet_queue = <<>>))
  /\ [][(since_reset /\ cmd_pc = "idle")
          => (NumSpawned' = NumSpawned /\ text_out' = text_out)]_vars

\* C30: whatever happened to the audio messages handled so far, the
\* Voice-Output process is still in its receive loop.
C30_WriteFailureKeepsLoop == vo_running

RECURSIVE Flatten(_)
Flatten(ss) == IF ss = <<>> THEN <<>> ELSE Head(ss) \o Flatten(Tail(ss))

SamplesOf(q) == {q[i] : i \in 1..Len(q)}

\* C28: the drained snapshots taken together hold the samples in append
\* order and none twice, and every appended sample is in exactly one place:
\* a snapshot, the buffer, or the set a reset removed.
C28_DrainIsAtomic ==
  LET drained == Flatten(tb_snapshots)
  IN /\ \A i \in 1..(Len(drained) - 1) : drained[i] < drained[i + 1]
     /\ \A i \in 1..(Len(tb_buffer) - 1) : tb_buffer[i] < tb_buffer[i + 1]
     /\ SamplesOf(drained) \cup SamplesOf(tb_buffer) \cup tb_removed = 1..tb_n
     /\ SamplesOf(drained) \cap SamplesOf(tb_buffer) = {}
     /\ SamplesOf(drained) \cap tb_removed = {}
     /\ SamplesOf(tb_buffer) \cap tb_removed = {}

\* two snapshots were drained around a reset that removed a sample
C28_Witness ==
  /\ tb_snapshots = <<(<<1>>), (<<3>>)>>
  /\ tb_removed = {2}
  /\ tb_buffer = <<>>

\* C29: when the ASR call of the first utterance's worker raises, no text
\* line is emitted for that utterance, and the main loop goes on to hand
\* the next utterance to a new worker once the failed one has returned;
\* the only line that can go out is the second utterance's.
C29_WorkerFailureIsContained ==
  /\ [](\A i \in 1..Len(text_out) :
          text_out[i] = [text |-> <<2>>, is_final |-> TRUE, by |-> 2])
  /\ <>(/\ workers[1].pc = "done"
        /\ workers[2].pc = "begin"
        /\ workers[2].audio = <<2>>)

\* the first worker failed and the second utterance's line went out
C29_Witness ==
  /\ workers[1].pc = "done"
  /\ workers[2].pc = "done"
  /\ text_out = <<[text |-> <<2>>, is_final |-> TRUE, by |-> 2]>>
  /\ wire = <<>>

\* C31: a line that starts no turn, bad JSON and JSON that is no object among
\* them, is discarded: the FSM state and the history are unchanged and the
\* text connection stays open for the lines that follow.
C31_BadLineKeepsConnection ==
  [][(rd_pc = "idle" /\ n_texts' # n_texts /\ rd_pc' = "idle")
       => (text_socket' /\ UNCHANGED <<state, history>>)]_vars

(* the positions of the frames of a sequence that carry an audio or a known
   status payload *)
Queueable(frames) ==
  SelectSeq([i \in 1..Len(frames) |-> i], LAMBDA i : frames[i] \in {"audio", "status"})

\* C32: a frame that is no VadPacket, or has no payload or an unknown status,
\* is discarded and the connection is kept: the receive loop is never left
\* while the client is connected, and the queue holds, in order, exactly the
\* audio and status frames among those received so far.
C32_BadFrameKeepsConnection ==
  /\ as_client # "dropped"
  /\ as_queue = Queueable(SubSeq(as_sent, 1, Len(as_sent) - Len(as_wire)))

\* C33: with equal rate and channels, every int16 sample x comes out as the
\* int32 value x * 2^16, which lies in the int32 range, and every int32
\* sample comes out as the int16 value q with q * 2^16 <= x < (q + 1) * 2^16,
\* its arithmetic right shift by 16, which lies in the int16 range.
C33_WidthConversion ==
  \A i \in 1..Len(chunk_out) :
    IF source_format.dtype = "int16"
    THEN /\ chunk_out[i] = chunk_in[i] * TWO_16
         /\ chunk_out[i] >= INT16_MIN * TWO_16
         /\ chunk_out[i] <= INT16_MAX * TWO_16
    ELSE /\ chunk_out[i] \in INT16_MIN..INT16_MAX
         /\ chunk_out[i] * TWO_16 <= chunk_in[i]
         /\ chunk_in[i] - chunk_out[i] * TWO_16 < TWO_16

\* the most negative int32 sample has been narrowed to -32768
C33_Witness ==
  /\ n_processed = 1
  /\ source_format.dtype = "int32"
  /\ chunk_in[1] = INT16_MIN * TWO_16
  /\ chunk_out[1] = INT16_MIN
  /\ Len(chunk_out) = Len(chunk_in)

\* C34: for mono input and a stereo target the returned samples form whole
\* stereo frames, and left and right are equal in every frame.
C34_MonoBecomesIdenticalStereo ==
  /\ Len(chunk_out) % 2 = 0
  /\ \A f \in 1..(Len(chunk_out) \div 2) : chunk_out[2 * f - 1] = chunk_out[2 * f]

\* a second mono chunk of a turn went through rate and width conversion,
\* with the rate state the first chunk left, into frames that differ
C34_Witness ==
  /\ n_processed = 2
  /\ source_format = Format(16000, 1, "int16")
  /\ target_dtype = "int32"
  /\ rate_state # NoRateState
  /\ Len(chunk_out) = 6 * Len(chunk_in)
  /\ chunk_out[1] # chunk_out[3]

(* a step of the main loop that takes a packet from the queue *)
IngestStep ==
  /\ main_pc = "ingest" /\ main_pc' = "ingest"
  /\ packet_queue # <<>> /\ packet_queue' = Tail(packet_queue)
  /\ cmd_pc' = cmd_pc /\ n_cmds' = n_cmds

(* a step of the main loop through _maybe_start_transcription *)
TranscribeStep == main_pc = "transcribe" /\ main_pc' = "ingest"

(* the workers started in this step *)
Started == {t \in WorkerIds : workers[t].pc = "unborn" /\ workers'[t].pc # "unborn"}

\* C35: status handling sets pending_transcription exactly on a SILENCE that
\* follows SPEECH_DETECTED or SPEECH_HANGOVER while listening and leaves it
\* alone otherwise; the main loop, finding the flag set, clears it and starts
\* one worker on the whole buffer (none for an empty buffer) when no worker
\* is alive, and leaves flag and buffer untouched when one is.
C35_PendingAndDrain ==
  /\ [][IngestStep =>
          LET p == Head(packet_queue)
          IN pending_transcription' =
               IF /\ p.payload = "status" /\ is_listening
                  /\ last_vad_status \in {"SPEECH_DETECTED", "SPEECH_HANGOVER"}
                  /\ p.status = "SILENCE"
               THEN TRUE
               ELSE pending_transcription]_vars
  /\ [][(TranscribeStep /\ pending_transcription) =>
          IF AliveWorkers = {}
          THEN /\ ~pending_transcription'
               /\ audio_buffer' = <<>>
               /\ IF audio_buffer = <<>>
                  THEN Started = {}
                  ELSE \E t \in WorkerIds :
                         Started = {t} /\ workers'[t].audio = audio_buffer
          ELSE /\ pending_transcription'
               /\ audio_buffer' = audio_buffer
               /\ Started = {}]_vars

(* the status in force before the packet at position i of out: that of the
   latest status packet before it, SILENCE when there is none *)
StatusBefore(out, i) ==
  LET st == StatusesOf(SubSeq(out, 1, i - 1))
  IN IF st = <<>> THEN "SILENCE" ELSE st[Len(st)].status

\* C36: a SPEECH_HANGOVER status is emitted only right after a hangover
\* audio packet of the same tick and only when the status in force was
\* SPEECH_DETECTED; an audio packet emitted while the status in force is
\* SILENCE is followed at once by the SPEECH_DETECTED status.
C36_HangoverOnlyAfterSpeech ==
  \A i \in 1..Len(emitted) :
    /\ (emitted[i].payload = "status" /\ emitted[i].status = "SPEECH_HANGOVER")
         => /\ i > 1
            /\ emitted[i - 1].payload = "audio"
            /\ emitted[i - 1].timestamp_ms = emitted[i].timestamp_ms
            /\ StatusBefore(emitted, i) = "SPEECH_DETECTED"
    /\ (emitted[i].payload = "audio" /\ StatusBefore(emitted, i) = "SILENCE")
         => /\ i < Len(emitted)
            /\ emitted[i + 1] = MakeStatusPacket("SPEECH_DETECTED", emitted[i].timestamp_ms)

\* two utterances went out, each with its hangover, and a further hangover
\* chunk followed the second SPEECH_HANGOVER status
C36_Witness ==
  LET st == StatusesOf(emitted) IN
    /\ Len(st) = 4
    /\ st[1].status = "SPEECH_DETECTED"
    /\ st[2].status = "SPEECH_HANGOVER"
    /\ st[3].status = "SPEECH_DETECTED"
    /\ st[4].status = "SPEECH_HANGOVER"
    /\ emitted[Len(emitted)].payload = "audio"

(* the reader is between its write of SPEAKING and its final write of LISTENING *)
InTurn == rd_pc \in {"call", "engine", "addasst", "speak", "finish"}

\* C37: while the engine is processing a turn the FSM state leaves SPEAKING
\* only by the turn's own final write of LISTENING or by the RESET handler's
\* write; a control connection made during the turn does not change it.
C37_SpeakingUntilTurnEnds ==
  [][(InTurn /\ state = "SPEAKING" /\ state' # "SPEAKING")
       => (rd_pc' = "idle" \/ bt_pc = "set")]_vars

(* the stop message of a RESET handled during the turn in progress has been
   published *)
StopPublishedInTurn ==
  turn_reset /\ bt_pc \in {"send", "set", "idle"} /\ InBus(bus, StopMsg)

\* C38: once the stop message of a RESET handled during a turn is published,
\* no audio chunk and no speak message of that turn is published any more.
C38_NothingPublishedAfterStop ==
  [][(StopPublishedInTurn /\ bus' # bus)
       => bus'[Len(bus')] \notin {AudioMsg(rd_text), SpeakMsg(rd_text)}]_vars

\* C39: whenever the FSM is LISTENING, the control connection is up, no
\* handler is in progress and Speech-Rec has processed every command sent to
\* it, Speech-Rec is listening.
C39_ListeningMeansSpeechRecListens ==
  (/\ state = "LISTENING" /\ control_socket
   /\ bt_pc = "idle" /\ cb_pc = "idle"
   /\ n_cmds = Len(sr_commands) /\ cmd_pc = "idle")
    => is_listening

(* the positions of the final texts among the first n lines *)
FinalsUpTo(n) ==
  SelectSeq([i \in 1..n |-> i], LAMBDA i : tr_lines[i])

\* C40: at most one turn is in flight; the final texts are handled in the
\* order their lines arrived; and a final text is handled only when no turn
\* is running, so one that arrived during a turn waits for its end.
C40_OneTurnAtATime ==
  /\ [](Cardinality(tr_in_flight) <= 1)
  /\ [](tr_handled = FinalsUpTo(tr_read))
  /\ [][tr_handled' # tr_handled => tr_in_flight = {}]_vars
  /\ [](tr_done = SubSeq(tr_handled, 1, Len(tr_done)))

\* the second final text arrived while the first turn was running, and its
\* turn is running now, after the first has finished, a third line waiting
C40_Witness ==
  /\ tr_lines = <<TRUE, TRUE, TRUE>>
  /\ tr_done = <<1>>
  /\ tr_in_flight = {2}
  /\ tr_read = 2

====
